---- MODULE Spec2Model ----
(***************************************************************************)
(* Model of the Confluent cost calculator: the ROM cost model of           *)
(* utils/rom_export.py (calculate_rom_costs), the prorated view of         *)
(* app_rom.py (calculate_costs and the utilization percentages shown with  *)
(* it) and the inventory readers of utils/csv_parser.py                    *)
(* (parse_storage_to_gb, parse_csv_file, parse_databricks_table).          *)
(*                                                                         *)
(* Python computes every monetary value in binary floating point (float)   *)
(* and every count in exact integers.  The model keeps both: counts are    *)
(* TLA+ integers, floats are records [m, e] standing for m * 2^e whose     *)
(* significand m has exactly Precision bits (or is 0), and every float     *)
(* operation rounds its exact result to the nearest such value, ties to    *)
(* even, as IEEE-754 arithmetic does.  Precision is narrower than the 53   *)
(* bits of a Python float so that the arithmetic fits TLC's integers; the  *)
(* rounding behaviour (inexact sums, non-associative addition) is kept.    *)
(* The floats carry no sign: the code applies +, *, / and ** to operands   *)
(* that are not below 0 and never subtracts.                               *)
(***************************************************************************)
EXTENDS Integers, Sequences, FiniteSets, TLC

\* Significand width of the modelled floating point numbers.
Precision == 14

----------------------------------------------------------------------------
(* Floating point arithmetic, round to nearest, ties to even.              *)

Zero == [m |-> 0, e |-> 0]

\* Long division continued one bit at a time until the quotient q (with
\* remainder r of divisor d) has Precision + 1 bits.
RECURSIVE ExtendBits(_, _, _, _)
ExtendBits(q, r, d, e) ==
    IF q >= 2^Precision
    THEN [q |-> q, r |-> r, e |-> e]
    ELSE ExtendBits(2 * q + (IF 2 * r >= d THEN 1 ELSE 0),
                    IF 2 * r >= d THEN 2 * r - d ELSE 2 * r, d, e - 1)

\* Low bits of q dropped until Precision + 1 bits are left; s remembers
\* whether anything non-zero was dropped.
RECURSIVE ShrinkBits(_, _, _)
ShrinkBits(q, s, e) ==
    IF q < 2^(Precision + 1)
    THEN [q |-> q, s |-> s, e |-> e]
    ELSE ShrinkBits(q \div 2, s \/ (q % 2 = 1), e + 1)

\* The float nearest to (n / d) * 2^e, for naturals n and d > 0.
RoundQ(n, d, e) ==
    IF n = 0 THEN Zero
    ELSE LET q0 == n \div d
             r0 == n % d
             x  == IF q0 >= 2^(Precision + 1)
                   THEN ShrinkBits(q0, r0 # 0, e)
                   ELSE LET ex == ExtendBits(q0, r0, d, e)
                        IN  [q |-> ex.q, s |-> ex.r # 0, e |-> ex.e]
             m0 == x.q \div 2
             up == (x.q % 2 = 1) /\ (x.s \/ (m0 % 2 = 1))
             m1 == IF up THEN m0 + 1 ELSE m0
         IN  IF m1 = 2^Precision
             THEN [m |-> 2^(Precision - 1), e |-> x.e + 2]
             ELSE [m |-> m1, e |-> x.e + 1]

\* float(n) of an integer n >= 0.
FromInt(n) == RoundQ(n, 1, 0)

\* The float a decimal literal n/d denotes (27.9 is Dec(279, 10)), and the
\* true division n / d of two Python integers.
Dec(n, d) == RoundQ(n, d, 0)

One == FromInt(1)

Lt(a, b) ==
    IF b.m = 0 THEN FALSE
    ELSE IF a.m = 0 THEN TRUE
    ELSE a.e < b.e \/ (a.e = b.e /\ a.m < b.m)

\* The significand of the smaller operand lo, aligned to three guard bits
\* below the larger operand hi, the lowest being sticky.
Align(hi, lo) ==
    LET diff == hi.e - lo.e
    IN  IF diff >= Precision + 3 THEN 1
        ELSE LET w  == 2^diff
                 s8 == lo.m * 8
                 qt == s8 \div w
             IN  IF s8 % w # 0 /\ qt % 2 = 0 THEN qt + 1 ELSE qt

\* a + b
Add(a, b) ==
    IF a.m = 0 THEN b
    ELSE IF b.m = 0 THEN a
    ELSE LET hi == IF Lt(a, b) THEN b ELSE a
             lo == IF Lt(a, b) THEN a ELSE b
         IN  RoundQ(hi.m * 8 + Align(hi, lo), 1, hi.e - 3)

\* a - b for a >= b >= 0
Sub(a, b) ==
    IF b.m = 0 THEN a
    ELSE RoundQ(a.m * 8 - Align(a, b), 1, a.e - 3)

\* a * b
Mul(a, b) ==
    IF a.m = 0 \/ b.m = 0 THEN Zero
    ELSE RoundQ(a.m * b.m, 1, a.e + b.e)

\* a / b for b # 0
Div(a, b) ==
    IF a.m = 0 THEN Zero
    ELSE RoundQ(a.m, b.m, a.e - b.e)

\* x ** i for an integer i >= 0 (the product is taken left to right).
RECURSIVE Pow(_, _)
Pow(x, i) == IF i = 0 THEN One ELSE Mul(Pow(x, i - 1), x)

----------------------------------------------------------------------------
(* Configurations handed to calculate_rom_costs.                           *)

\* A feed descriptor of config['feed_configs'].
Feed(inb, outb, parts) == [inbound |-> inb, outbound |-> outb, partitions |-> parts]

\* The feed_configs lists tried: none, the shell's preview descriptor for the
\* Medium size, descriptors without topics, the descriptor calculate_rom_costs
\* defaults to, and two descriptors of different shapes.
FeedConfigsSet ==
    { <<>>,
      <<Feed(1, 1, FromInt(24))>>,
      <<Feed(0, 0, Zero)>>,
      <<Feed(0, 0, FromInt(24))>>,
      <<Feed(1, 1, Dec(48, 1000))>>,
      <<Feed(2, 1, FromInt(24)), Feed(1, 1, Dec(48, 1000))>> }

NumIngestsSet == {0, 1, 2}

HourlyRateSet == {0, 80}

SetupCostSet == {0, 8000}

EscalationSet == {Zero, Dec(34, 1000)}

\* Which cost keys the dictionary carries: the annual keys calculate_rom_costs
\* reads, or only the monthly keys of the shell's DEFAULT_ROM_CONFIG.
KeysSet == {"annual", "monthly"}

\* Values of keys calculate_rom_costs never reads: the Configuration's network
\* rate and capacity, and the cost-model mode.
ExtrasSet ==
    { [base_network_annual_cost |-> 120000, network_capacity_partitions |-> 100, mode |-> "utilization"],
      [base_network_annual_cost |-> 60000,  network_capacity_partitions |-> 100, mode |-> "utilization"],
      [base_network_annual_cost |-> 120000, network_capacity_partitions |-> 50,  mode |-> "utilization"],
      [base_network_annual_cost |-> 120000, network_capacity_partitions |-> 100, mode |-> "flat"] }

MkConfig(n, fc, rate, setup, esc, keys, ex) ==
    [ num_ingests |-> n,
      feed_configs |-> fc,
      records_per_day |-> 5000,
      de_hourly_rate |-> rate,
      inbound_hours |-> 296,
      outbound_hours |-> 254,
      normalization_hours |-> Dec(279, 10),
      workspace_setup_cost |-> setup,
      keys |-> keys,
      confluent_annual_cost |-> 11709,
      gcp_per_feed_annual_cost |-> 9279,
      escalation_rate |-> esc,
      start_year |-> 2025,
      base_network_annual_cost |-> ex.base_network_annual_cost,
      network_capacity_partitions |-> ex.network_capacity_partitions,
      mode |-> ex.mode ]

ConfigSet ==
    { MkConfig(n, fc, rate, setup, esc, keys, ex) :
        n \in NumIngestsSet, fc \in FeedConfigsSet, rate \in HourlyRateSet,
        setup \in SetupCostSet, esc \in EscalationSet, keys \in KeysSet,
        ex \in ExtrasSet }

----------------------------------------------------------------------------
(* calculate_rom_costs, lines 17-61: everything computed before the loop.  *)

RECURSIVE SumInbound(_)
SumInbound(fc) == IF fc = <<>> THEN 0 ELSE SumInbound(SubSeq(fc, 1, Len(fc) - 1)) + fc[Len(fc)].inbound

RECURSIVE SumOutbound(_)
SumOutbound(fc) == IF fc = <<>> THEN 0 ELSE SumOutbound(SubSeq(fc, 1, Len(fc) - 1)) + fc[Len(fc)].outbound

\* sum(f['partitions'] for f in feed_configs): left to right from 0.
RECURSIVE SumPartitions(_)
SumPartitions(fc) ==
    IF fc = <<>> THEN Zero
    ELSE Add(SumPartitions(SubSeq(fc, 1, Len(fc) - 1)), fc[Len(fc)].partitions)

TOTAL_NETWORK_PARTITIONS == 100

base_network_annual == 120000

partition_utilization(cfg) == Div(SumPartitions(cfg.feed_configs), FromInt(TOTAL_NETWORK_PARTITIONS))

\* Mutant: the inbound cost follows the ingest count instead of the topic count.
inbound_cost_PerIngest(cfg) == FromInt(cfg.num_ingests * cfg.inbound_hours * cfg.de_hourly_rate)

inbound_cost(cfg) == FromInt(SumInbound(cfg.feed_configs) * cfg.inbound_hours * cfg.de_hourly_rate)

outbound_cost(cfg) == FromInt(SumOutbound(cfg.feed_configs) * cfg.outbound_hours * cfg.de_hourly_rate)

\* Mutant: the normalization cost follows the topic counts instead of the
\* ingest count.
normalization_cost_PerTopic(cfg) ==
    Mul(Mul(cfg.normalization_hours, FromInt(cfg.de_hourly_rate)),
        FromInt(SumInbound(cfg.feed_configs) + SumOutbound(cfg.feed_configs)))

normalization_cost(cfg) ==
    Mul(Mul(cfg.normalization_hours, FromInt(cfg.de_hourly_rate)), FromInt(cfg.num_ingests))

one_time_development(cfg) ==
    Add(Add(FromInt(SumInbound(cfg.feed_configs) * cfg.inbound_hours * cfg.de_hourly_rate
                    + SumOutbound(cfg.feed_configs) * cfg.outbound_hours * cfg.de_hourly_rate),
            normalization_cost(cfg)),
        FromInt(cfg.workspace_setup_cost))

\* Mutant: the platform cost without the utilization factor.
confluent_cost_Unscaled(cfg) == FromInt(cfg.confluent_annual_cost * cfg.num_ingests)

confluent_cost(cfg) ==
    Mul(FromInt(cfg.confluent_annual_cost * cfg.num_ingests), Add(One, partition_utilization(cfg)))

storage_multiplier(cfg) ==
    Add(One, Div(Dec(cfg.records_per_day * 365, 1024 * 1024), FromInt(1000)))

gcp_cost(cfg) ==
    Mul(FromInt(cfg.gcp_per_feed_annual_cost * cfg.num_ingests), storage_multiplier(cfg))

network_cost(cfg) == Mul(FromInt(base_network_annual), partition_utilization(cfg))

first_year_cloud_cost(cfg) == Add(Add(confluent_cost(cfg), gcp_cost(cfg)), network_cost(cfg))

\* The locals of one call as they stand when the loop is entered.
Locals(cfg) ==
    [ total_feeds |-> cfg.num_ingests,
      total_inbound_feeds |-> SumInbound(cfg.feed_configs),
      total_outbound_feeds |-> SumOutbound(cfg.feed_configs),
      total_partitions |-> SumPartitions(cfg.feed_configs),
      inbound_cost |-> inbound_cost(cfg),
      outbound_cost |-> outbound_cost(cfg),
      normalization_cost |-> normalization_cost(cfg),
      workspace_setup |-> FromInt(cfg.workspace_setup_cost),
      one_time_development |-> one_time_development(cfg),
      confluent_cost |-> confluent_cost(cfg),
      gcp_cost |-> gcp_cost(cfg),
      network_cost |-> network_cost(cfg),
      first_year_cloud_cost |-> first_year_cloud_cost(cfg) ]

NoLocals == [none |-> TRUE]

NoResult == [none |-> TRUE]

----------------------------------------------------------------------------
(* calculate_costs of app_rom.py: the prorated view.  The function reads   *)
(* the session's CKU configuration and flat costs and the totals of the    *)
(* loaded inventory besides its size_config argument.                      *)

\* What one call of calculate_costs reads.
MkSession(size, inventory) ==
    [ size_config |-> size,
      cku_config |-> [azure_ckus |-> 1, azure_rate |-> 1000, gcp_ckus |-> 2, gcp_rate |-> 1500],
      flat_costs |-> [storage |-> 180000, network |-> 120000,
                      network_multiplier |-> Dec(75, 100), governance |-> 42840],
      TOTAL_PARTITIONS |-> inventory.total_partitions,
      TOTAL_STORAGE_GB |-> inventory.total_storage_gb ]

\* The Small and Medium sizes of DEFAULT_TSHIRT_SIZES.
SizeSet == { [partitions |-> 6, storage_gb |-> 15], [partitions |-> 24, storage_gb |-> 100] }

\* Totals of a loaded inventory: some topics, or none.
InventorySet ==
    { [total_partitions |-> 197, total_storage_gb |-> FromInt(2500)],
      [total_partitions |-> 0, total_storage_gb |-> Zero] }

SessionSet == { MkSession(size, inv) : size \in SizeSet, inv \in InventorySet }

\* Mutant: the network cost is prorated by the partition ratio like the
\* compute cost.
calculate_costs_ProratedNetwork(s) ==
    LET azure_annual == s.cku_config.azure_ckus * s.cku_config.azure_rate * 12
        gcp_annual == s.cku_config.gcp_ckus * s.cku_config.gcp_rate * 12
        total_cku_cost_annual == azure_annual + gcp_annual
        partition_ratio == IF s.TOTAL_PARTITIONS > 0
                           THEN Dec(s.size_config.partitions, s.TOTAL_PARTITIONS)
                           ELSE Zero
        storage_ratio == IF Lt(Zero, s.TOTAL_STORAGE_GB)
                         THEN Div(FromInt(s.size_config.storage_gb), s.TOTAL_STORAGE_GB)
                         ELSE Zero
        compute == Mul(partition_ratio, FromInt(total_cku_cost_annual))
        storage == Mul(storage_ratio, FromInt(s.flat_costs.storage))
        network == Mul(partition_ratio,
                       Mul(FromInt(s.flat_costs.network), s.flat_costs.network_multiplier))
        governance == Mul(storage_ratio, FromInt(s.flat_costs.governance))
        total_yearly == Add(Add(Add(compute, storage), network), governance)
    IN  [ compute |-> compute,
          storage |-> storage,
          network |-> network,
          governance |-> governance,
          total_yearly |-> total_yearly,
          total_monthly |-> Div(total_yearly, FromInt(12)) ]

\* Lines 569-598.
calculate_costs(s) ==
    LET azure_annual == s.cku_config.azure_ckus * s.cku_config.azure_rate * 12
        gcp_annual == s.cku_config.gcp_ckus * s.cku_config.gcp_rate * 12
        total_cku_cost_annual == azure_annual + gcp_annual
        partition_ratio == IF s.TOTAL_PARTITIONS > 0
                           THEN Dec(s.size_config.partitions, s.TOTAL_PARTITIONS)
                           ELSE Zero
        storage_ratio == IF Lt(Zero, s.TOTAL_STORAGE_GB)
                         THEN Div(FromInt(s.size_config.storage_gb), s.TOTAL_STORAGE_GB)
                         ELSE Zero
        compute == Mul(partition_ratio, FromInt(total_cku_cost_annual))
        storage == Mul(storage_ratio, FromInt(s.flat_costs.storage))
        network == Mul(FromInt(s.flat_costs.network), s.flat_costs.network_multiplier)
        governance == Mul(storage_ratio, FromInt(s.flat_costs.governance))
        total_yearly == Add(Add(Add(compute, storage), network), governance)
    IN  [ compute |-> compute,
          storage |-> storage,
          network |-> network,
          governance |-> governance,
          total_yearly |-> total_yearly,
          total_monthly |-> Div(total_yearly, FromInt(12)) ]

NoCosts == [none |-> TRUE]

\* The session of a rerun of the page: the selected size, the loaded
\* inventory's totals and the CKU and flat-cost settings.
MkView(size, inventory, cku, flat) ==
    [ size_config |-> size,
      cku_config |-> cku,
      flat_costs |-> flat,
      TOTAL_PARTITIONS |-> inventory.total_partitions,
      TOTAL_STORAGE_GB |-> inventory.total_storage_gb ]

\* The Small, Medium and Large sizes of DEFAULT_TSHIRT_SIZES.
ViewSizeSet ==
    { [partitions |-> 6, storage_gb |-> 15], [partitions |-> 24, storage_gb |-> 100],
      [partitions |-> 50, storage_gb |-> 250] }

\* Totals of a loaded inventory: topics with storage, no topic at all,
\* topics whose storage fields give 0, topics without partitions.
ViewInventorySet ==
    { [total_partitions |-> 197, total_storage_gb |-> FromInt(2500)],
      [total_partitions |-> 0, total_storage_gb |-> Zero],
      [total_partitions |-> 15, total_storage_gb |-> Zero],
      [total_partitions |-> 0, total_storage_gb |-> Dec(7, 2)] }

\* Settings of st.session_state.cku_config.
CkuConfigSet ==
    { [azure_ckus |-> 1, azure_rate |-> 1000, gcp_ckus |-> 2, gcp_rate |-> 1500],
      [azure_ckus |-> 2, azure_rate |-> 1024, gcp_ckus |-> 0, gcp_rate |-> 1585],
      [azure_ckus |-> 0, azure_rate |-> 1925, gcp_ckus |-> 0, gcp_rate |-> 1585] }

\* Settings of st.session_state.flat_costs: DEFAULT_FLAT_COSTS and another.
FlatCostsSet ==
    { [storage |-> 180000, network |-> 120000, network_multiplier |-> Dec(75, 100),
       governance |-> 42840],
      [storage |-> 90000, network |-> 60000, network_multiplier |-> One, governance |-> 0] }

ViewSet ==
    { MkView(size, inv, cku, flat) :
        size \in ViewSizeSet, inv \in ViewInventorySet, cku \in CkuConfigSet,
        flat \in FlatCostsSet }

\* Lines 666-670: the percentages of the st.info text.  Each division
\* raises ZeroDivisionError on a total of 0.
UtilizationInfo(s) ==
    IF s.TOTAL_PARTITIONS = 0 \/ s.TOTAL_STORAGE_GB = Zero
    THEN [shown |-> FALSE, raised |-> TRUE, compute |-> Zero, storage |-> Zero]
    ELSE [ shown |-> TRUE, raised |-> FALSE,
           compute |-> Mul(Dec(s.size_config.partitions, s.TOTAL_PARTITIONS), FromInt(100)),
           storage |-> Mul(Div(FromInt(s.size_config.storage_gb), s.TOTAL_STORAGE_GB),
                           FromInt(100)) ]

----------------------------------------------------------------------------
(* utils/csv_parser.py, parse_storage_to_gb.  A string is the sequence of   *)
(* its characters.                                                         *)

Digits == {"0", "1", "2", "3", "4", "5", "6", "7", "8", "9"}

DigitValue(c) ==
    CASE c = "0" -> 0 [] c = "1" -> 1 [] c = "2" -> 2 [] c = "3" -> 3 [] c = "4" -> 4
      [] c = "5" -> 5 [] c = "6" -> 6 [] c = "7" -> 7 [] c = "8" -> 8 [] c = "9" -> 9

UpperLetters ==
    {"A", "B", "C", "D", "E", "F", "G", "H", "I", "J", "K", "L", "M",
     "N", "O", "P", "Q", "R", "S", "T", "U", "V", "W", "X", "Y", "Z"}

\* str.upper() on one character.
UpperChar(c) ==
    CASE c = "a" -> "A" [] c = "b" -> "B" [] c = "c" -> "C" [] c = "d" -> "D" [] c = "e" -> "E"
      [] c = "f" -> "F" [] c = "g" -> "G" [] c = "h" -> "H" [] c = "i" -> "I" [] c = "j" -> "J"
      [] c = "k" -> "K" [] c = "l" -> "L" [] c = "m" -> "M" [] c = "n" -> "N" [] c = "o" -> "O"
      [] c = "p" -> "P" [] c = "q" -> "Q" [] c = "r" -> "R" [] c = "s" -> "S" [] c = "t" -> "T"
      [] c = "u" -> "U" [] c = "v" -> "V" [] c = "w" -> "W" [] c = "x" -> "X" [] c = "y" -> "Y"
      [] c = "z" -> "Z" [] OTHER -> c

upper(s) == [k \in 1..Len(s) |-> UpperChar(s[k])]

\* The characters str.strip() removes and \s matches.
IsSpace(c) == c \in {" ", "\t"}

RECURSIVE lstrip(_)
lstrip(s) == IF s # <<>> /\ IsSpace(s[1]) THEN lstrip(Tail(s)) ELSE s

RECURSIVE rstrip(_)
rstrip(s) == IF s # <<>> /\ IsSpace(s[Len(s)]) THEN rstrip(SubSeq(s, 1, Len(s) - 1)) ELSE s

strip(s) == rstrip(lstrip(s))

\* How many characters of s from position p on lie in the class cls.
RECURSIVE RunLength(_, _, _)
RunLength(s, p, cls) ==
    IF p <= Len(s) /\ s[p] \in cls THEN 1 + RunLength(s, p + 1, cls) ELSE 0

\* re.match(r'([\d.]+)\s*([A-Z]*)', s): anchored at the start, each part
\* greedy; no match when s does not start with a digit or a dot.
StorageMatch(s) ==
    LET n1 == RunLength(s, 1, Digits \cup {"."})
        n2 == RunLength(s, n1 + 1, {" ", "\t"})
        n3 == RunLength(s, n1 + n2 + 1, UpperLetters)
    IN  [ matched |-> n1 > 0,
          group1 |-> SubSeq(s, 1, n1),
          group2 |-> SubSeq(s, n1 + n2 + 1, n1 + n2 + n3) ]

\* The digits of a text of digits and dots read as one decimal integer.
RECURSIVE DigitsValue(_)
DigitsValue(t) ==
    IF t = <<>> THEN 0
    ELSE IF t[Len(t)] = "." THEN DigitsValue(SubSeq(t, 1, Len(t) - 1))
    ELSE 10 * DigitsValue(SubSeq(t, 1, Len(t) - 1)) + DigitValue(t[Len(t)])

CountDots(t) == Cardinality({k \in 1..Len(t) : t[k] = "."})

\* How many digits follow the (only) dot of t.
FractionDigits(t) ==
    IF CountDots(t) = 0 THEN 0
    ELSE Len(t) - (CHOOSE k \in 1..Len(t) : t[k] = ".")

\* float(t) accepts a text of digits and dots when it has at least one digit
\* and at most one dot, and raises ValueError otherwise.
FloatAccepts(t) == CountDots(t) <= 1 /\ Len(t) - CountDots(t) >= 1

\* float(t) of an accepted text: the nearest float to the decimal.
float(t) == Dec(DigitsValue(t), 10^FractionDigits(t))

\* Mutant: decimal instead of binary scaling.
conversions_Decimal(unit) ==
    CASE unit = <<"T", "B">> -> FromInt(1000)
      [] unit = <<"G", "B">> -> One
      [] unit = <<"M", "B">> -> Dec(1, 1000)
      [] unit = <<"K", "B">> -> Dec(1, 1000 * 1000)
      [] unit = <<"B">> -> Dec(1, 1000 * 1000 * 1000)
      [] OTHER -> One

\* Mutant: the factor of KB is that of MB.
conversions_KiloAsMega(unit) ==
    CASE unit = <<"T", "B">> -> FromInt(1024)
      [] unit = <<"G", "B">> -> One
      [] unit = <<"M", "B">> -> Dec(1, 1024)
      [] unit = <<"K", "B">> -> Dec(1, 1024)
      [] unit = <<"B">> -> Dec(1, 1024 * 1024 * 1024)
      [] OTHER -> One

\* Lines 18-26: conversions.get(unit, 1).
conversions(unit) ==
    CASE unit = <<"T", "B">> -> FromInt(1024)
      [] unit = <<"G", "B">> -> One
      [] unit = <<"M", "B">> -> Dec(1, 1024)
      [] unit = <<"K", "B">> -> Dec(1, 1024 * 1024)
      [] unit = <<"B">> -> Dec(1, 1024 * 1024 * 1024)
      [] OTHER -> One

\* What a call gives back: a value, or an exception.
Returns(v) == [raised |-> FALSE, error |-> "", value |-> v]

Raises(err) == [raised |-> TRUE, error |-> err, value |-> Zero]

\* Lines 5-26.
parse_storage_to_gb(storage_str) ==
    IF storage_str = <<>> \/ strip(storage_str) = <<>> THEN Returns(Zero)
    ELSE LET s == upper(strip(storage_str))
             match == StorageMatch(s)
         IN  IF ~match.matched THEN Returns(Zero)
             ELSE IF ~FloatAccepts(match.group1) THEN Raises("ValueError")
             ELSE LET value == float(match.group1)
                      unit == IF match.group2 # <<>> THEN match.group2 ELSE <<"B">>
                  IN  Returns(Mul(value, conversions(unit)))

----------------------------------------------------------------------------
(* utils/csv_parser.py, parse_csv_file and parse_databricks_table.  A row  *)
(* of the file is the sequence of its fields, each a string; a row of the  *)
(* table is a sequence of cells, each a string or null.                    *)

\* The text of t without the underscores int() allows between digits.
RECURSIVE WithoutUnderscores(_)
WithoutUnderscores(t) ==
    IF t = <<>> THEN <<>>
    ELSE IF t[1] = "_" THEN WithoutUnderscores(Tail(t))
    ELSE <<t[1]>> \o WithoutUnderscores(Tail(t))

\* The text after an optional sign.
Unsigned(t) == IF t # <<>> /\ t[1] \in {"+", "-"} THEN Tail(t) ELSE t

\* int(t) of a string: surrounding whitespace and a sign are allowed, then
\* digits, with single underscores between them; ValueError otherwise.
IntAccepts(t) ==
    LET u == Unsigned(strip(t))
    IN  /\ u # <<>>
        /\ \A k \in 1..Len(u) : u[k] \in Digits \cup {"_"}
        /\ u[1] # "_" /\ u[Len(u)] # "_"
        /\ \A k \in 1..(Len(u) - 1) : ~(u[k] = "_" /\ u[k + 1] = "_")

\* int(t) of an accepted string.
int(t) ==
    LET st == strip(t)
        v  == DigitsValue(WithoutUnderscores(Unsigned(st)))
    IN  IF st[1] = "-" THEN 0 - v ELSE v

\* One entry of the 'topics' list.
Topic(name, partitions, gb, raw) ==
    [name |-> name, partitions |-> partitions, storage_gb |-> gb, storage_raw |-> raw]

\* The dictionary both readers return.
Inventory(tp, ts, tops) == [total_partitions |-> tp, total_storage_gb |-> ts, topics |-> tops]

\* Lines 45-64 on one row of the file: the row is skipped ("short": fewer
\* than 6 fields, "error": ValueError inside the try) or kept.
CsvRowOutcome(row) ==
    IF Len(row) < 6 THEN [kind |-> "short"]
    ELSE IF strip(row[3]) # <<>> /\ ~IntAccepts(row[3]) THEN [kind |-> "error"]
    ELSE IF parse_storage_to_gb(strip(row[6])).raised THEN [kind |-> "error"]
    ELSE [ kind |-> "kept",
           topic |-> Topic(strip(row[1]),
                           IF strip(row[3]) # <<>> THEN int(row[3]) ELSE 0,
                           parse_storage_to_gb(strip(row[6])).value,
                           strip(row[6])) ]

\* A cell of the table: a string, or null (None in the DataFrame).
Cell(text) == [null |-> FALSE, text |-> text]

Null == [null |-> TRUE, text |-> <<>>]

\* str(cell)
str(cell) == IF cell.null THEN <<"N", "o", "n", "e">> ELSE cell.text

\* The table holding the data rows of a file: the same cells by position, a
\* row with fewer than 6 fields having null in the columns it lacks.
TableOf(file) ==
    [ r \in 1..(Len(file) - 1) |->
        [ c \in 1..(IF Len(file[r + 1]) < 6 THEN 6 ELSE Len(file[r + 1])) |->
            IF c <= Len(file[r + 1]) THEN Cell(file[r + 1][c]) ELSE Null ] ]

\* Lines 86-99 on one row of the table: no try, so that a ValueError of
\* int() or of parse_storage_to_gb leaves the loop ("error"); a null or
\* empty partition cell is falsy and counts as 0.
TableRowOutcome(row) ==
    IF ~row[3].null /\ row[3].text # <<>> /\ ~IntAccepts(row[3].text) THEN [kind |-> "error"]
    ELSE IF parse_storage_to_gb(strip(str(row[6]))).raised THEN [kind |-> "error"]
    ELSE [ kind |-> "kept",
           topic |-> Topic(strip(str(row[1])),
                           IF ~row[3].null /\ row[3].text # <<>> THEN int(row[3].text) ELSE 0,
                           parse_storage_to_gb(strip(str(row[6]))).value,
                           strip(str(row[6]))) ]

\* Mutant: the error raised keeps nothing of its cause.
LoadFailure_Bare(cause) ==
    [ type |-> "Exception", message |-> <<"Failed to load Databricks table: ", "">>,
      cause |-> "none" ]

\* Line 108: the exception raised in the except clause; its message ends
\* with str(e) and Python chains e to it.
LoadFailure(cause) ==
    [ type |-> "Exception", message |-> <<"Failed to load Databricks table: ", cause>>,
      cause |-> cause ]

----------------------------------------------------------------------------
(* State: one call of calculate_rom_costs at a time, and the calls made so *)
(* far with what they were given and what they gave back.                  *)

VARIABLES
    config,                       \* the dictionary passed to the call
    pc,                           \* "idle", "loop", "done" or "raised"
    loc,                          \* the locals computed before the loop
    i,                            \* the loop variable of range(1, 7)
    operating_variance,           \* the list built by the loop
    cloud_infrastructure_7year,   \* accumulator, line 71
    operating_variance_6year,     \* accumulator, line 72
    result,                       \* the dictionary returned
    session,                      \* what calculate_costs reads
    costs,                        \* what calculate_costs returned last
    utilization_info,             \* the utilization percentages shown with costs
    call_log,                     \* the completed calls, oldest first
    storage_str,                  \* the argument of parse_storage_to_gb
    storage_gb,                   \* what parse_storage_to_gb gave back
    rows,                         \* the inventory's rows, header first
    reader_pc,                    \* where the inventory reader stands
    row_idx,                      \* the row the reader's loop is at
    total_partitions,             \* the reader's running totals
    total_storage_gb,
    topics,                       \* the reader's per-row records
    parsed_data,                  \* st.session_state.parsed_data
    rom_config,                   \* st.session_state.rom_config
    selected_size,                \* the size_config of the selected T-shirt size
    shell_pc,                     \* where the run of the page stands
    notice,                       \* what st.error / st.info / st.success showed last
    HAS_OPENPYXL                  \* whether the import of openpyxl succeeded

\* The variables of the cost model and those of the inventory readers.
rom_vars == <<config, pc, loc, i, operating_variance, cloud_infrastructure_7year,
              operating_variance_6year, result, session, costs, utilization_info>>

storage_vars == <<storage_str, storage_gb>>

reader_vars == <<rows, reader_pc, row_idx, total_partitions, total_storage_gb, topics,
                 parsed_data>>

\* The variables of the page: the session's settings and the run's position.
shell_vars == <<rom_config, selected_size, shell_pc, notice, HAS_OPENPYXL>>

vars == <<config, pc, loc, i, operating_variance, cloud_infrastructure_7year,
          operating_variance_6year, result, session, costs, utilization_info, call_log,
          storage_str, storage_gb, rows, reader_pc, row_idx, total_partitions,
          total_storage_gb, topics, parsed_data, rom_config, selected_size, shell_pc,
          notice, HAS_OPENPYXL>>

\* How many calls one behaviour makes at most.
MaxCalls == 3

\* A completed call: the function, what it was given, whether it raised, and
\* what it returned.
LogEntry(fn, input, raised, output) ==
    [fn |-> fn, input |-> input, raised |-> raised, output |-> output]

\* The session the shell starts with: the Medium size and a loaded inventory.
DefaultSession ==
    MkSession([partitions |-> 24, storage_gb |-> 100],
              [total_partitions |-> 197, total_storage_gb |-> FromInt(2500)])

\* parse_storage_to_gb not called yet.
NotCalled == [raised |-> FALSE, error |-> "not called", value |-> Zero]

\* st.session_state.parsed_data before anything is loaded (None).
NoInventory == [none |-> TRUE]

\* The utilization percentages before the page has shown them.
NotShown == [shown |-> FALSE, raised |-> FALSE, compute |-> Zero, storage |-> Zero]

\* Before the first call of calculate_rom_costs, on one of configs, and
\* before the first recomputation of the view, on one of sessions.
RomIdleWith(configs, sessions) ==
    /\ config \in configs
    /\ pc = "idle"
    /\ loc = NoLocals
    /\ i = 0
    /\ operating_variance = <<>>
    /\ cloud_infrastructure_7year = Zero
    /\ operating_variance_6year = Zero
    /\ result = NoResult
    /\ session \in sessions
    /\ costs = NoCosts
    /\ utilization_info = NotShown
    /\ call_log = <<>>

RomIdle(configs) == RomIdleWith(configs, {DefaultSession})

\* Before the first call of parse_storage_to_gb, on one of strs.
StorageIdle(strs) ==
    /\ storage_str \in strs
    /\ storage_gb = NotCalled

\* Before an inventory is loaded, from one of files.
ReaderIdle(files) ==
    /\ rows \in files
    /\ reader_pc = "idle"
    /\ row_idx = 0
    /\ total_partitions = 0
    /\ total_storage_gb = Zero
    /\ topics = <<>>
    /\ parsed_data = NoInventory

\* app_rom.py lines 49-67: DEFAULT_ROM_CONFIG carries the monthly platform and
\* compute costs and no annual ones.
DEFAULT_ROM_CONFIG ==
    MkConfig(1, <<Feed(1, 1, FromInt(24))>>, 80, 8000, Dec(34, 1000), "monthly",
             [base_network_annual_cost |-> 120000, network_capacity_partitions |-> 100,
              mode |-> "utilization"])

\* DEFAULT_TSHIRT_SIZES['Medium'], the selection st.radio starts with (index=1).
DefaultSize == [partitions |-> 24, storage_gb |-> 100]

\* A message of st.error, st.info or st.success.
Notice(kind, about, detail) == [kind |-> kind, about |-> about, detail |-> detail]

\* Nothing shown yet.
NoNotice == Notice("none", "nothing", "none")

\* app_rom.py lines 76-96 and utils/rom_export.py lines 3-10: the session a
\* browser starts with, before the first run of the page; the import of
\* openpyxl has succeeded or not, as libs says.
ShellIdle(libs) ==
    /\ rom_config = DEFAULT_ROM_CONFIG
    /\ selected_size = DefaultSize
    /\ shell_pc = "wait"
    /\ notice = NoNotice
    /\ HAS_OPENPYXL \in libs

InitIn(configs) ==
    RomIdle(configs) /\ StorageIdle({<<>>}) /\ ReaderIdle({<<>>}) /\ ShellIdle({TRUE})

Init == InitIn(ConfigSet)

\* Mutant: the 7-year accumulator starts from 0.
InitCloud7year_Zero(first) == Zero

\* Mutant: the 6-year accumulator is not reset and keeps the sum of the
\* previous call.
InitVariance6year_Stale == operating_variance_6year

\* Lines 71 and 72: the accumulators before the loop.
InitCloud7year(first) == first

InitVariance6year == Zero

\* Mutant: the network cost takes the partition total of the inventory held
\* as the capacity.
Call_InventoryCapacity ==
    /\ pc = "idle"
    /\ config.keys = "annual"
    /\ loc' = [ Locals(config) EXCEPT
                  !.network_cost =
                      IF parsed_data = NoInventory \/ parsed_data.total_partitions = 0
                      THEN @
                      ELSE Mul(FromInt(base_network_annual),
                               Div(SumPartitions(config.feed_configs),
                                   FromInt(parsed_data.total_partitions))) ]
    /\ operating_variance' = <<>>
    /\ cloud_infrastructure_7year' = InitCloud7year(first_year_cloud_cost(config))
    /\ operating_variance_6year' = InitVariance6year
    /\ i' = 1
    /\ pc' = "loop"
    /\ UNCHANGED <<config, result, session, costs, call_log>>
    /\ UNCHANGED <<utilization_info, storage_vars, reader_vars, shell_vars>>

\* Lines 17-72 with every key present: the costs, then the accumulators are
\* initialised and the loop is entered.
Call ==
    /\ pc = "idle"
    /\ config.keys = "annual"
    /\ loc' = Locals(config)
    /\ operating_variance' = <<>>
    /\ cloud_infrastructure_7year' = InitCloud7year(first_year_cloud_cost(config))
    /\ operating_variance_6year' = InitVariance6year
    /\ i' = 1
    /\ pc' = "loop"
    /\ UNCHANGED <<config, result, session, costs, call_log>>
    /\ UNCHANGED <<utilization_info, storage_vars, reader_vars, shell_vars>>

\* Line 37 on a dictionary without 'confluent_annual_cost': KeyError.
RaiseKeyError ==
    /\ pc = "idle"
    /\ config.keys # "annual"
    /\ pc' = "raised"
    /\ call_log' = Append(call_log, LogEntry("calculate_rom_costs", config, TRUE, NoResult))
    /\ UNCHANGED <<config, loc, i, operating_variance, cloud_infrastructure_7year,
                   operating_variance_6year, result, session, costs>>
    /\ UNCHANGED <<utilization_info, storage_vars, reader_vars, shell_vars>>

\* Mutant: each cloud component is escalated on its own and the results added.
escalated_cloud_cost_ComponentWise(first, rate, k) ==
    Add(Add(Mul(loc.confluent_cost, Pow(Add(One, rate), k)),
            Mul(loc.gcp_cost, Pow(Add(One, rate), k))),
        Mul(loc.network_cost, Pow(Add(One, rate), k)))

\* Mutant: the exponent counts down, so that the years de-escalate.
escalated_cloud_cost_CountDown(first, rate, k) == Mul(first, Pow(Add(One, rate), 7 - k))

\* Line 76.
escalated_cloud_cost(first, rate, k) == Mul(first, Pow(Add(One, rate), k))

\* Lines 77 and 78: the two += of the loop body.
AccumulateCloud7year(acc, esc) == Add(acc, esc)

\* Mutant: = instead of +=.
AccumulateVariance6year_Assign(acc, esc) == esc

AccumulateVariance6year(acc, esc) == Add(acc, esc)

\* One iteration of the loop, lines 74-85.
LoopStep ==
    /\ pc = "loop"
    /\ i <= 6
    /\ LET esc == escalated_cloud_cost(loc.first_year_cloud_cost, config.escalation_rate, i)
       IN  /\ cloud_infrastructure_7year' = AccumulateCloud7year(cloud_infrastructure_7year, esc)
           /\ operating_variance_6year' = AccumulateVariance6year(operating_variance_6year, esc)
           /\ operating_variance' = Append(operating_variance,
                  [ year |-> config.start_year + i,
                    data_engineering |-> Zero,
                    cloud_infrastructure |-> esc,
                    total |-> esc ])
    /\ i' = i + 1
    /\ UNCHANGED <<config, pc, loc, result, session, costs, call_log>>
    /\ UNCHANGED <<utilization_info, storage_vars, reader_vars, shell_vars>>

\* Mutant: the total takes the first year instead of the 7-year cloud cost.
total_project_cost_FirstYear(one_time, cloud7) == Add(one_time, loc.first_year_cloud_cost)

\* Line 87.
total_project_cost(one_time, cloud7) == Add(one_time, cloud7)

\* Lines 87-113.
Return ==
    /\ pc = "loop"
    /\ i = 7
    /\ result' =
         [ initial_investment |->
             << [ year |-> config.start_year,
                  data_engineering |-> loc.one_time_development,
                  cloud_infrastructure |-> loc.first_year_cloud_cost,
                  total |-> Add(loc.one_time_development, loc.first_year_cloud_cost) ] >>,
           operating_variance |-> operating_variance,
           total_feeds |-> loc.total_feeds,
           total_partitions |-> loc.total_partitions,
           total_inbound_feeds |-> loc.total_inbound_feeds,
           total_outbound_feeds |-> loc.total_outbound_feeds,
           breakdown |->
             [ inbound_cost |-> loc.inbound_cost,
               outbound_cost |-> loc.outbound_cost,
               normalization_cost |-> loc.normalization_cost,
               workspace_setup |-> loc.workspace_setup,
               confluent_cost |-> loc.confluent_cost,
               gcp_cost |-> loc.gcp_cost,
               network_cost |-> loc.network_cost,
               one_time_development |-> loc.one_time_development,
               cloud_infrastructure_7year |-> cloud_infrastructure_7year,
               operating_variance_6year |-> operating_variance_6year,
               total_project_cost |-> total_project_cost(loc.one_time_development,
                                                         cloud_infrastructure_7year),
               first_year_cloud_cost |-> loc.first_year_cloud_cost ] ]
    /\ pc' = "done"
    /\ call_log' = Append(call_log, LogEntry("calculate_rom_costs", config, FALSE, result'))
    /\ UNCHANGED <<config, loc, i, operating_variance, cloud_infrastructure_7year,
                   operating_variance_6year, session, costs>>
    /\ UNCHANGED <<utilization_info, storage_vars, reader_vars, shell_vars>>

Next == Call \/ RaiseKeyError \/ LoopStep \/ Return

\* One call of calculate_rom_costs on each configuration.
Spec == Init /\ [][Next]_vars

----------------------------------------------------------------------------
(* Several calls in a row, of calculate_rom_costs and of calculate_costs.  *)

\* The configurations called repeatedly: the scenario with the Medium size,
\* the same without escalation, two ingests with two descriptors, and the
\* scenario with the shell's monthly keys only.
RepeatConfigSet ==
    LET ex == [base_network_annual_cost |-> 120000, network_capacity_partitions |-> 100,
               mode |-> "utilization"]
    IN  { MkConfig(1, <<Feed(1, 1, FromInt(24))>>, 80, 8000, Dec(34, 1000), "annual", ex),
          MkConfig(1, <<Feed(1, 1, FromInt(24))>>, 80, 8000, Zero, "annual", ex),
          MkConfig(2, <<Feed(2, 1, FromInt(24)), Feed(1, 1, Dec(48, 1000))>>, 80, 8000,
                   Dec(34, 1000), "annual", ex),
          MkConfig(1, <<Feed(1, 1, FromInt(24))>>, 80, 8000, Dec(34, 1000), "monthly", ex) }

InitRepeat == InitIn(RepeatConfigSet)

\* The caller passes another dictionary to a new call once the previous call
\* has returned or raised.
NextCall ==
    /\ pc \in {"done", "raised"}
    /\ Len(call_log) < MaxCalls
    /\ config' \in RepeatConfigSet
    /\ pc' = "idle"
    /\ UNCHANGED <<loc, i, operating_variance, cloud_infrastructure_7year,
                   operating_variance_6year, result, session, costs, call_log>>
    /\ UNCHANGED <<utilization_info, storage_vars, reader_vars, shell_vars>>

\* The shell's settings, size selection or inventory change and
\* calculate_costs runs on them (app_rom.py lines 630-631).
CalculateCosts ==
    /\ pc \in {"done", "raised"}
    /\ Len(call_log) < MaxCalls
    /\ \E s \in SessionSet :
          /\ session' = s
          /\ costs' = calculate_costs(s)
          /\ call_log' = Append(call_log, LogEntry("calculate_costs", s, FALSE, calculate_costs(s)))
    /\ UNCHANGED <<config, pc, loc, i, operating_variance, cloud_infrastructure_7year,
                   operating_variance_6year, result>>
    /\ UNCHANGED <<utilization_info, storage_vars, reader_vars, shell_vars>>

NextRepeat == Call \/ RaiseKeyError \/ LoopStep \/ Return \/ NextCall \/ CalculateCosts

SpecRepeat == InitRepeat /\ [][NextRepeat]_vars

Returned == pc = "done"

B == result.breakdown
----------------------------------------------------------------------------
(* Calls of parse_storage_to_gb.                                           *)

\* The longest string of the exhaustive part of the inputs.
MaxStrLen == 3

Alphabet == {"1", "5", ".", " ", "g", "G", "B", "M", "K", "T", "X", "-"}

\* Every string over Alphabet of at most MaxStrLen characters.
ShortStrings == UNION { [1..n -> Alphabet] : n \in 0..MaxStrLen }

\* Decimal numerals with the number n / d each denotes.
NumeralSet ==
    { [text |-> <<"1">>, n |-> 1, d |-> 1],
      [text |-> <<"2">>, n |-> 2, d |-> 1],
      [text |-> <<"1", "0">>, n |-> 10, d |-> 1],
      [text |-> <<"1", ".", "5">>, n |-> 15, d |-> 10],
      [text |-> <<".", "5">>, n |-> 5, d |-> 10],
      [text |-> <<"0", ".", "1">>, n |-> 1, d |-> 10],
      [text |-> <<"1", "0", "2", "4">>, n |-> 1024, d |-> 1],
      [text |-> <<"3", "0", "7", "2">>, n |-> 3072, d |-> 1] }

SpaceSet == { <<>>, <<" ">>, <<"\t">>, <<" ", " ">> }

\* Spellings of the unit suffix with the unit each spells: the five units in
\* upper, lower and mixed case, no suffix, and suffixes that are no unit.
UnitSet ==
    { [text |-> <<"T", "B">>, unit |-> "TB"], [text |-> <<"t", "b">>, unit |-> "TB"],
      [text |-> <<"G", "B">>, unit |-> "GB"], [text |-> <<"g", "b">>, unit |-> "GB"],
      [text |-> <<"G", "b">>, unit |-> "GB"],
      [text |-> <<"M", "B">>, unit |-> "MB"], [text |-> <<"m", "b">>, unit |-> "MB"],
      [text |-> <<"K", "B">>, unit |-> "KB"], [text |-> <<"k", "B">>, unit |-> "KB"],
      [text |-> <<"B">>, unit |-> "B"], [text |-> <<"b">>, unit |-> "B"],
      [text |-> <<>>, unit |-> "absent"],
      [text |-> <<"X", "B">>, unit |-> "unrecognized"],
      [text |-> <<"P", "B">>, unit |-> "unrecognized"],
      [text |-> <<"G", "i", "B">>, unit |-> "unrecognized"] }

\* Whitespace around the whole string.
PadSet == { [lead |-> <<>>, trail |-> <<>>], [lead |-> <<" ">>, trail |-> <<" ">>] }

Spelled(num, ws, u, pad) == pad.lead \o num.text \o ws \o u.text \o pad.trail

\* A numeral, optional whitespace and a unit suffix.
StructuredStrings ==
    { Spelled(num, ws, u, pad) : num \in NumeralSet, ws \in SpaceSet, u \in UnitSet, pad \in PadSet }

\* Digit and dot sequences that are no decimal, some with a unit.
MalformedStrings ==
    { <<"1", ".", "2", ".", "3">>, <<".", ".">>, <<"1", ".", ".", "5", "G", "B">>,
      <<".", " ", "M", "B">>, <<"1", ".", "2", ".", "3", " ", "T", "B">> }

StorageStrSet == ShortStrings \cup StructuredStrings \cup MalformedStrings

\* The configuration of the cost model while the parser is looked at.
ScenarioConfig ==
    MkConfig(1, <<Feed(1, 1, FromInt(24))>>, 80, 8000, Dec(34, 1000), "annual",
             [base_network_annual_cost |-> 120000, network_capacity_partitions |-> 100,
              mode |-> "utilization"])

InitStorage ==
    RomIdle({ScenarioConfig}) /\ StorageIdle(StorageStrSet) /\ ReaderIdle({<<>>})
    /\ ShellIdle({TRUE})

\* parse_storage_to_gb(storage_str) returns.
ParseStorageReturn ==
    /\ storage_gb = NotCalled
    /\ ~parse_storage_to_gb(storage_str).raised
    /\ storage_gb' = parse_storage_to_gb(storage_str)
    /\ call_log' = Append(call_log, LogEntry("parse_storage_to_gb", storage_str, FALSE,
                                             parse_storage_to_gb(storage_str).value))
    /\ UNCHANGED <<rom_vars, storage_str, reader_vars, shell_vars>>

\* parse_storage_to_gb(storage_str) raises: float() at line 15.
ParseStorageRaise ==
    /\ storage_gb = NotCalled
    /\ parse_storage_to_gb(storage_str).raised
    /\ storage_gb' = parse_storage_to_gb(storage_str)
    /\ call_log' = Append(call_log, LogEntry("parse_storage_to_gb", storage_str, TRUE, Zero))
    /\ UNCHANGED <<rom_vars, storage_str, reader_vars, shell_vars>>

NextStorage == ParseStorageReturn \/ ParseStorageRaise

\* One call of parse_storage_to_gb on each string.
SpecStorage == InitStorage /\ [][NextStorage]_vars

\* The magnitudes converted in several units: the numeral of n and the
\* numeral of 1024 * n.
MagnitudeSet ==
    { [text |-> <<"1">>, times1024 |-> <<"1", "0", "2", "4">>],
      [text |-> <<"3">>, times1024 |-> <<"3", "0", "7", "2">>],
      [text |-> <<"1", ".", "5">>, times1024 |-> <<"1", "5", "3", "6">>],
      [text |-> <<"0", ".", "1">>, times1024 |-> <<"1", "0", "2", ".", "4">>] }

\* Each unit with the next larger one.
UnitSteps ==
    { [small |-> <<"B">>, large |-> <<"K", "B">>],
      [small |-> <<"K", "B">>, large |-> <<"M", "B">>],
      [small |-> <<"M", "B">>, large |-> <<"G", "B">>],
      [small |-> <<"G", "B">>, large |-> <<"T", "B">>] }

ConvertStrSet ==
    { n.text \o u.large : n \in MagnitudeSet, u \in UnitSteps }
    \cup { n.times1024 \o u.small : n \in MagnitudeSet, u \in UnitSteps }
    \cup { n.text \o <<"G", "B">> : n \in MagnitudeSet }
    \cup { <<"1", ".", "2", ".", "3", "G", "B">> }

\* How many strings one behaviour converts at most.
MaxConverts == 2

InitConvert ==
    RomIdle({ScenarioConfig}) /\ StorageIdle(ConvertStrSet) /\ ReaderIdle({<<>>})
    /\ ShellIdle({TRUE})

\* The caller converts another string.
NextStorageCall ==
    /\ storage_gb # NotCalled
    /\ Len(call_log) < MaxConverts
    /\ storage_str' \in ConvertStrSet
    /\ storage_gb' = NotCalled
    /\ UNCHANGED <<rom_vars, call_log, reader_vars, shell_vars>>

NextConvert == ParseStorageReturn \/ ParseStorageRaise \/ NextStorageCall

\* Several calls of parse_storage_to_gb in a row.
SpecConvert == InitConvert /\ [][NextConvert]_vars

----------------------------------------------------------------------------
(* Loading the inventory: parse_csv_file on the rows of a file, and        *)
(* parse_databricks_table on the table holding the same data rows.         *)

\* The header row and the data rows the files are made of: two rows that
\* parse, a blank partition field, a partition field that is no integer, a
\* row without the storage column, a storage field that is no decimal, and
\* a storage field without a number.
Header ==
    << <<"n", "a", "m", "e">>, <<>>, <<"p">>, <<>>, <<>>, <<"s">> >>

RowSet ==
    { << <<"a">>, <<>>, <<"3">>, <<>>, <<>>, <<"1", "G", "B">> >>,
      << <<" ", "b">>, <<>>, <<" ", "1", "2">>, <<>>, <<>>, <<"5", "1", "2", " ", "m", "b">>, <<"x">> >>,
      << <<"c">>, <<>>, <<" ">>, <<>>, <<>>, <<"2", "G", "B">> >>,
      << <<"d">>, <<>>, <<"3", ".", "5">>, <<>>, <<>>, <<"1", "G", "B">> >>,
      << <<"e">>, <<>>, <<"7">>, <<>>, <<>> >>,
      << <<"f">>, <<>>, <<"4">>, <<>>, <<>>, <<"1", ".", "2", ".", "3">> >>,
      << <<"g">>, <<>>, <<"2">>, <<>>, <<>>, <<"n", "/", "a">> >> }

\* How many data rows the enumerated files have at most.
MaxRows == 2

\* One row without the storage column among four rows that parse.
ExampleFile ==
    << Header,
       << <<"a">>, <<>>, <<"3">>, <<>>, <<>>, <<"1", "G", "B">> >>,
       << <<"b">>, <<>>, <<"1", "2">>, <<>>, <<>>, <<"5", "1", "2", "M", "B">> >>,
       << <<"e">>, <<>>, <<"7">>, <<>>, <<>> >>,
       << <<"h">>, <<>>, <<"1">>, <<>>, <<>>, <<"1", "T", "B">> >>,
       << <<"k">>, <<>>, <<>>, <<>>, <<>>, <<"2", "G", "B">> >> >>

\* The empty file, and the header followed by at most MaxRows data rows.
FileSet ==
    { <<>>, ExampleFile }
    \cup UNION { { <<Header>> \o data : data \in [1..n -> RowSet] } : n \in 0..MaxRows }

\* What makes the table unreachable: pyspark missing, no session, the query
\* failing, the transfer failing (lines 74-79).
FetchFailures == {"ImportError", "AnalysisException", "ConnectionError"}

\* How many loads one behaviour makes at most.
MaxLoads == 2

InitLoad ==
    RomIdle({ScenarioConfig}) /\ StorageIdle({<<>>}) /\ ReaderIdle(FileSet)
    /\ ShellIdle({TRUE})

\* parse_csv_file, lines 29-42: the rows are read and the loop starts after
\* the header.
ParseCsvFile ==
    /\ reader_pc = "idle"
    /\ Len(call_log) < MaxLoads
    /\ total_partitions' = 0
    /\ total_storage_gb' = Zero
    /\ topics' = <<>>
    /\ row_idx' = 2
    /\ reader_pc' = "csv_loop"
    /\ UNCHANGED <<rom_vars, call_log, storage_vars, shell_vars, rows, parsed_data>>

\* Lines 45-46: a row with fewer than 6 fields.
CsvRowShort ==
    /\ reader_pc = "csv_loop"
    /\ row_idx <= Len(rows)
    /\ CsvRowOutcome(rows[row_idx]).kind = "short"
    /\ row_idx' = row_idx + 1
    /\ UNCHANGED <<rom_vars, call_log, storage_vars, shell_vars, rows, reader_pc, total_partitions,
                   total_storage_gb, topics, parsed_data>>

\* Mutant: the partitions are added before the storage is parsed, and stay
\* added when parsing it raises.
CsvRowError_PartitionsFirst ==
    /\ reader_pc = "csv_loop"
    /\ row_idx <= Len(rows)
    /\ CsvRowOutcome(rows[row_idx]).kind = "error"
    /\ total_partitions' =
          IF IntAccepts(rows[row_idx][3]) THEN total_partitions + int(rows[row_idx][3])
          ELSE total_partitions
    /\ row_idx' = row_idx + 1
    /\ UNCHANGED <<rom_vars, call_log, storage_vars, shell_vars, rows, reader_pc,
                   total_storage_gb, topics, parsed_data>>

\* Lines 48-64 when int() or parse_storage_to_gb raises ValueError.
CsvRowError ==
    /\ reader_pc = "csv_loop"
    /\ row_idx <= Len(rows)
    /\ CsvRowOutcome(rows[row_idx]).kind = "error"
    /\ row_idx' = row_idx + 1
    /\ UNCHANGED <<rom_vars, call_log, storage_vars, shell_vars, rows, reader_pc, total_partitions,
                   total_storage_gb, topics, parsed_data>>

\* Lines 48-62 when nothing raises.
CsvRowKept ==
    /\ reader_pc = "csv_loop"
    /\ row_idx <= Len(rows)
    /\ CsvRowOutcome(rows[row_idx]).kind = "kept"
    /\ LET topic == CsvRowOutcome(rows[row_idx]).topic
       IN  /\ total_partitions' = total_partitions + topic.partitions
           /\ total_storage_gb' = Add(total_storage_gb, topic.storage_gb)
           /\ topics' = Append(topics, topic)
    /\ row_idx' = row_idx + 1
    /\ UNCHANGED <<rom_vars, call_log, storage_vars, shell_vars, rows, reader_pc, parsed_data>>

\* Lines 66-70, and app_rom.py line 163 storing what was returned.
CsvReturn ==
    /\ reader_pc = "csv_loop"
    /\ row_idx > Len(rows)
    /\ parsed_data' = Inventory(total_partitions, total_storage_gb, topics)
    /\ call_log' = Append(call_log, LogEntry("parse_csv_file", rows, FALSE,
                                             Inventory(total_partitions, total_storage_gb, topics)))
    /\ reader_pc' = "idle"
    /\ UNCHANGED <<rom_vars, storage_vars, shell_vars, rows, row_idx, total_partitions, total_storage_gb, topics>>

\* parse_databricks_table, lines 74-83: the table is fetched and the loop
\* starts at its first row.
ParseTable ==
    /\ reader_pc = "idle"
    /\ Len(call_log) < MaxLoads
    /\ total_partitions' = 0
    /\ total_storage_gb' = Zero
    /\ topics' = <<>>
    /\ row_idx' = 1
    /\ reader_pc' = "table_loop"
    /\ UNCHANGED <<rom_vars, call_log, storage_vars, shell_vars, rows, parsed_data>>

\* Lines 74-79 raise because the table cannot be reached; line 108 raises
\* in turn and app_rom.py lines 154-158 keep the inventory held before.
ParseTableUnreachable ==
    /\ reader_pc = "idle"
    /\ Len(call_log) < MaxLoads
    /\ \E e \in FetchFailures :
          call_log' = Append(call_log,
              LogEntry("parse_databricks_table", [table |-> TableOf(rows), unreachable |-> e],
                       TRUE, LoadFailure(e)))
    /\ UNCHANGED <<rom_vars, storage_vars, reader_vars, shell_vars>>

\* Lines 86-99 when nothing raises.
TableRowKept ==
    /\ reader_pc = "table_loop"
    /\ row_idx <= Len(TableOf(rows))
    /\ TableRowOutcome(TableOf(rows)[row_idx]).kind = "kept"
    /\ LET topic == TableRowOutcome(TableOf(rows)[row_idx]).topic
       IN  /\ total_partitions' = total_partitions + topic.partitions
           /\ total_storage_gb' = Add(total_storage_gb, topic.storage_gb)
           /\ topics' = Append(topics, topic)
    /\ row_idx' = row_idx + 1
    /\ UNCHANGED <<rom_vars, call_log, storage_vars, shell_vars, rows, reader_pc, parsed_data>>

\* Lines 87-89 raise ValueError on a row; line 108 raises in turn.
TableRowError ==
    /\ reader_pc = "table_loop"
    /\ row_idx <= Len(TableOf(rows))
    /\ TableRowOutcome(TableOf(rows)[row_idx]).kind = "error"
    /\ call_log' = Append(call_log,
           LogEntry("parse_databricks_table", [table |-> TableOf(rows), unreachable |-> "no"],
                    TRUE, LoadFailure("ValueError")))
    /\ reader_pc' = "idle"
    /\ UNCHANGED <<rom_vars, storage_vars, shell_vars, rows, row_idx, total_partitions, total_storage_gb,
                   topics, parsed_data>>

\* Lines 101-105, and app_rom.py line 155 storing what was returned.
TableReturn ==
    /\ reader_pc = "table_loop"
    /\ row_idx > Len(TableOf(rows))
    /\ parsed_data' = Inventory(total_partitions, total_storage_gb, topics)
    /\ call_log' = Append(call_log,
           LogEntry("parse_databricks_table", [table |-> TableOf(rows), unreachable |-> "no"],
                    FALSE, Inventory(total_partitions, total_storage_gb, topics)))
    /\ reader_pc' = "idle"
    /\ UNCHANGED <<rom_vars, storage_vars, shell_vars, rows, row_idx, total_partitions, total_storage_gb, topics>>

NextLoad ==
    \/ ParseCsvFile \/ CsvRowShort \/ CsvRowError \/ CsvRowKept \/ CsvReturn
    \/ ParseTable \/ ParseTableUnreachable \/ TableRowKept \/ TableRowError \/ TableReturn

\* Loads of one inventory, from the file and from the table.
SpecLoad == InitLoad /\ [][NextLoad]_vars

----------------------------------------------------------------------------
(* A rerun of the page: the prorated view is recomputed and shown.         *)

InitView ==
    RomIdleWith({ScenarioConfig}, ViewSet) /\ StorageIdle({<<>>}) /\ ReaderIdle({<<>>})
    /\ ShellIdle({TRUE})

\* app_rom.py lines 630-631: costs = calculate_costs(size_config, selected_size)
Recompute ==
    /\ costs = NoCosts
    /\ costs' = calculate_costs(session)
    /\ call_log' = Append(call_log, LogEntry("calculate_costs", session, FALSE,
                                             calculate_costs(session)))
    /\ UNCHANGED <<config, pc, loc, i, operating_variance, cloud_infrastructure_7year,
                   operating_variance_6year, result, session, utilization_info,
                   storage_vars, reader_vars, shell_vars>>

\* Lines 666-670 with both totals different from 0: the percentages are shown.
ShowUtilization ==
    /\ costs # NoCosts
    /\ utilization_info = NotShown
    /\ ~UtilizationInfo(session).raised
    /\ utilization_info' = UtilizationInfo(session)
    /\ UNCHANGED <<config, pc, loc, i, operating_variance, cloud_infrastructure_7year,
                   operating_variance_6year, result, session, costs, call_log,
                   storage_vars, reader_vars, shell_vars>>

\* Lines 666-670 with a total of 0: ZeroDivisionError ends the rerun.
ShowUtilizationRaise ==
    /\ costs # NoCosts
    /\ utilization_info = NotShown
    /\ UtilizationInfo(session).raised
    /\ utilization_info' = UtilizationInfo(session)
    /\ UNCHANGED <<config, pc, loc, i, operating_variance, cloud_infrastructure_7year,
                   operating_variance_6year, result, session, costs, call_log,
                   storage_vars, reader_vars, shell_vars>>

NextView == Recompute \/ ShowUtilization \/ ShowUtilizationRaise

SpecView == InitView /\ [][NextView]_vars

----------------------------------------------------------------------------
(* The page of app_rom.py.  Streamlit runs the script from its first line  *)
(* to its last on every interaction; st.session_state (parsed_data,        *)
(* rom_config) outlives the run, the script's locals (costs, rom_results)  *)
(* do not.  st.stop() and an uncaught exception end the run where they     *)
(* happen.                                                                 *)

\* How long the log may be when a run of the page starts.
MaxRunLog == 2

\* The files and tables loaded from the page: one topic, two topics, no
\* topic, and one topic whose storage field is no decimal.
PageFileSet ==
    { << Header, << <<"a">>, <<>>, <<"3">>, <<>>, <<>>, <<"1", "G", "B">> >> >>,
      << Header,
         << <<"b">>, <<>>, <<"1", "2">>, <<>>, <<>>, <<"5", "1", "2", "M", "B">> >>,
         << <<"a">>, <<>>, <<"3">>, <<>>, <<>>, <<"1", "G", "B">> >> >>,
      << Header >>,
      << Header, << <<"f">>, <<>>, <<"4">>, <<>>, <<>>, <<"1", ".", "2", ".", "3">> >> >> }

\* The sizes selected on the page: Small and Medium.
PageSizeSet == { [partitions |-> 6, storage_gb |-> 15], [partitions |-> 24, storage_gb |-> 100] }

\* The values typed into the ROM settings panel.
PageIngestsSet == {1, 2}

PageEscalationSet == {Zero, Dec(34, 1000)}

\* Mutant: the totals and the records of the load before are kept.
StartCsv_KeepTotals(f) ==
    /\ rows' = f
    /\ row_idx' = 2
    /\ reader_pc' = "csv_loop"
    /\ UNCHANGED <<total_partitions, total_storage_gb, topics, parsed_data>>

\* parse_csv_file lines 29-42 on the rows f: the totals start from 0 and the
\* loop starts after the header.
StartCsv(f) ==
    /\ rows' = f
    /\ total_partitions' = 0
    /\ total_storage_gb' = Zero
    /\ topics' = <<>>
    /\ row_idx' = 2
    /\ reader_pc' = "csv_loop"
    /\ UNCHANGED parsed_data

\* parse_databricks_table lines 74-83 on the table of f.
StartTable(f) ==
    /\ rows' = f
    /\ total_partitions' = 0
    /\ total_storage_gb' = Zero
    /\ topics' = <<>>
    /\ row_idx' = 1
    /\ reader_pc' = "table_loop"
    /\ UNCHANGED parsed_data

\* An interaction starts a run: the script's locals are new, the page is
\* drawn again from nothing.
StartRun ==
    /\ shell_pc = "wait"
    /\ Len(call_log) < MaxRunLog
    /\ shell_pc' = "sidebar"
    /\ costs' = NoCosts
    /\ utilization_info' = NotShown
    /\ result' = NoResult
    /\ notice' = NoNotice
    /\ UNCHANGED <<config, pc, loc, i, operating_variance, cloud_infrastructure_7year,
                   operating_variance_6year, session, call_log, storage_vars, reader_vars,
                   rom_config, selected_size, HAS_OPENPYXL>>

\* Lines 147-163 when the button is not clicked and no file is uploaded.
NoLoad ==
    /\ shell_pc = "sidebar"
    /\ shell_pc' = "default"
    /\ UNCHANGED <<rom_vars, call_log, storage_vars, reader_vars, rom_config, selected_size,
                   notice, HAS_OPENPYXL>>

\* Lines 153-155: the button is clicked and parse_databricks_table fetches
\* the table.
ClickLoadTable ==
    /\ shell_pc = "sidebar"
    /\ reader_pc = "idle"
    /\ \E f \in PageFileSet : StartTable(f)
    /\ shell_pc' = "table"
    /\ UNCHANGED <<rom_vars, call_log, storage_vars, rom_config, selected_size, notice,
                   HAS_OPENPYXL>>

\* Lines 153-155 when the table cannot be reached: parse_databricks_table
\* raises at line 108.
ClickLoadTableUnreachable ==
    /\ shell_pc = "sidebar"
    /\ reader_pc = "idle"
    /\ \E e \in {"AnalysisException"} :
          call_log' = Append(call_log,
              LogEntry("parse_databricks_table", [table |-> TableOf(rows), unreachable |-> e],
                       TRUE, LoadFailure(e)))
    /\ shell_pc' = "table"
    /\ UNCHANGED <<rom_vars, storage_vars, reader_vars, rom_config, selected_size, notice,
                   HAS_OPENPYXL>>

\* Line 156: the call returned and line 155 stored the inventory.
LoadTableSucceeded ==
    /\ shell_pc = "table"
    /\ reader_pc = "idle"
    /\ ~call_log[Len(call_log)].raised
    /\ notice' = Notice("success", "table", "loaded")
    /\ shell_pc' = "default"
    /\ UNCHANGED <<rom_vars, call_log, storage_vars, reader_vars, rom_config, selected_size,
                   HAS_OPENPYXL>>

\* Mutant: the except clause forgets the inventory held.
LoadTableFailed_Forget ==
    /\ shell_pc = "table"
    /\ reader_pc = "idle"
    /\ call_log[Len(call_log)].raised
    /\ notice' = Notice("error", "table", call_log[Len(call_log)].output.message[2])
    /\ shell_pc' = "default"
    /\ parsed_data' = NoInventory
    /\ UNCHANGED <<rom_vars, call_log, storage_vars, rows, reader_pc, row_idx,
                   total_partitions, total_storage_gb, topics, rom_config, selected_size,
                   HAS_OPENPYXL>>

\* Lines 157-158: the call raised; the except clause shows the error and
\* the run goes on.
LoadTableFailed ==
    /\ shell_pc = "table"
    /\ reader_pc = "idle"
    /\ call_log[Len(call_log)].raised
    /\ notice' = Notice("error", "table", call_log[Len(call_log)].output.message[2])
    /\ shell_pc' = "default"
    /\ UNCHANGED <<rom_vars, call_log, storage_vars, reader_vars, rom_config, selected_size,
                   HAS_OPENPYXL>>

\* Lines 161-163: a file is uploaded and parse_csv_file reads it.
UploadFile ==
    /\ shell_pc = "sidebar"
    /\ reader_pc = "idle"
    /\ \E f \in PageFileSet : StartCsv(f)
    /\ shell_pc' = "upload"
    /\ UNCHANGED <<rom_vars, call_log, storage_vars, rom_config, selected_size, notice,
                   HAS_OPENPYXL>>

\* Line 164, after line 163 stored what parse_csv_file returned.
Uploaded ==
    /\ shell_pc = "upload"
    /\ reader_pc = "idle"
    /\ notice' = Notice("success", "upload", "loaded")
    /\ shell_pc' = "default"
    /\ UNCHANGED <<rom_vars, call_log, storage_vars, reader_vars, rom_config, selected_size,
                   HAS_OPENPYXL>>

\* Line 167 with an inventory held: the default file is not looked at.
DefaultSkipped ==
    /\ shell_pc = "default"
    /\ parsed_data # NoInventory
    /\ shell_pc' = "guard"
    /\ UNCHANGED <<rom_vars, call_log, storage_vars, reader_vars, rom_config, selected_size,
                   notice, HAS_OPENPYXL>>

\* Lines 167-170 with no inventory held and Topic_list.csv present.
DefaultFileLoad ==
    /\ shell_pc = "default"
    /\ parsed_data = NoInventory
    /\ reader_pc = "idle"
    /\ StartCsv(ExampleFile)
    /\ shell_pc' = "default_load"
    /\ UNCHANGED <<rom_vars, call_log, storage_vars, rom_config, selected_size, notice,
                   HAS_OPENPYXL>>

\* Line 170 has stored the inventory of the default file.
DefaultLoaded ==
    /\ shell_pc = "default_load"
    /\ reader_pc = "idle"
    /\ shell_pc' = "guard"
    /\ UNCHANGED <<rom_vars, call_log, storage_vars, reader_vars, rom_config, selected_size,
                   notice, HAS_OPENPYXL>>

\* Lines 167-172 with no inventory held and no Topic_list.csv: open()
\* raises and the bare except shows the hint.
DefaultFileMissing ==
    /\ shell_pc = "default"
    /\ parsed_data = NoInventory
    /\ notice' = Notice("info", "default file", "please load")
    /\ shell_pc' = "guard"
    /\ UNCHANGED <<rom_vars, call_log, storage_vars, reader_vars, rom_config, selected_size,
                   HAS_OPENPYXL>>

\* Mutant: the run goes on without an inventory.
GuardStop_GoesOn ==
    /\ shell_pc = "guard"
    /\ parsed_data = NoInventory
    /\ notice' = Notice("error", "guard", "please upload")
    /\ shell_pc' = "settings"
    /\ UNCHANGED <<rom_vars, call_log, storage_vars, reader_vars, rom_config, selected_size,
                   HAS_OPENPYXL>>

\* Lines 190-197 with no inventory held: st.stop() ends the run.
GuardStop ==
    /\ shell_pc = "guard"
    /\ parsed_data = NoInventory
    /\ notice' = Notice("error", "guard", "please upload")
    /\ shell_pc' = "wait"
    /\ UNCHANGED <<rom_vars, call_log, storage_vars, reader_vars, rom_config, selected_size,
                   HAS_OPENPYXL>>

\* Lines 190 and 199-201 with an inventory held.
GuardPass ==
    /\ shell_pc = "guard"
    /\ parsed_data # NoInventory
    /\ shell_pc' = "settings"
    /\ UNCHANGED <<rom_vars, call_log, storage_vars, reader_vars, rom_config, selected_size,
                   notice, HAS_OPENPYXL>>

\* Lines 203-512 when no ROM setting is edited.
KeepSettings ==
    /\ shell_pc = "settings"
    /\ shell_pc' = "size"
    /\ UNCHANGED <<rom_vars, call_log, storage_vars, reader_vars, rom_config, selected_size,
                   notice, HAS_OPENPYXL>>

\* Lines 382-405 and 491: the number of ingests and the escalation rate are
\* typed in; the feed descriptors are made anew when their number differs
\* from the number of ingests.  Lines 457-487 write the monthly costs only.
EditRomSettings ==
    /\ shell_pc = "settings"
    /\ \E n \in PageIngestsSet, esc \in PageEscalationSet :
          /\ <<n, esc>> # <<rom_config.num_ingests, rom_config.escalation_rate>>
          /\ rom_config' =
               [ rom_config EXCEPT
                   !.num_ingests = n,
                   !.escalation_rate = esc,
                   !.feed_configs = IF Len(@) # n
                                    THEN [k \in 1..n |-> Feed(1, 1, Dec(48, 1000))]
                                    ELSE @ ]
    /\ shell_pc' = "size"
    /\ UNCHANGED <<rom_vars, call_log, storage_vars, reader_vars, selected_size, notice,
                   HAS_OPENPYXL>>

\* Lines 514-516: the defaults are restored and st.rerun() ends the run for
\* the next one.
ResetRomSettings ==
    /\ shell_pc = "settings"
    /\ rom_config' = DEFAULT_ROM_CONFIG
    /\ shell_pc' = "wait"
    /\ UNCHANGED <<rom_vars, call_log, storage_vars, reader_vars, selected_size, notice,
                   HAS_OPENPYXL>>

\* Lines 604-631: the size is selected and calculate_costs prices it against
\* the totals of the inventory held.
SelectSize ==
    /\ shell_pc = "size"
    /\ \E size \in PageSizeSet :
          /\ selected_size' = size
          /\ session' = MkSession(size, parsed_data)
          /\ costs' = calculate_costs(MkSession(size, parsed_data))
    /\ shell_pc' = "utilization"
    /\ UNCHANGED <<config, pc, loc, i, operating_variance, cloud_infrastructure_7year,
                   operating_variance_6year, result, utilization_info, call_log, storage_vars,
                   reader_vars, rom_config, notice, HAS_OPENPYXL>>

\* Lines 666-670 on the page, with both totals different from 0.
PageUtilization == shell_pc = "utilization" /\ ShowUtilization

\* Lines 666-670 on the page, with a total of 0.
PageUtilizationRaise == shell_pc = "utilization" /\ ShowUtilizationRaise

\* After line 670: the run goes on, or the ZeroDivisionError has ended it.
AfterUtilization ==
    /\ shell_pc = "utilization"
    /\ utilization_info # NotShown
    /\ shell_pc' = IF utilization_info.raised THEN "wait" ELSE "preview"
    /\ notice' = IF utilization_info.raised
                 THEN Notice("exception", "utilization", "ZeroDivisionError")
                 ELSE notice
    /\ UNCHANGED <<rom_vars, call_log, storage_vars, reader_vars, rom_config, selected_size,
                   HAS_OPENPYXL>>

\* Lines 722-730 and 786-799: the configuration of the preview and of the
\* exports is the session's with one feed descriptor per ingest, each with
\* the partitions of the selected size.
preview_rom_config(rc, size_config) ==
    [ rc EXCEPT !.feed_configs =
        [k \in 1..rc.num_ingests |-> Feed(1, 1, FromInt(size_config.partitions))] ]

\* Line 732: calculate_rom_costs is called on the preview configuration.
PreviewCall ==
    /\ shell_pc = "preview"
    /\ config' = preview_rom_config(rom_config, selected_size)
    /\ pc' = "idle"
    /\ shell_pc' = "rom"
    /\ UNCHANGED <<loc, i, operating_variance, cloud_infrastructure_7year,
                   operating_variance_6year, result, session, costs, utilization_info,
                   call_log, storage_vars, reader_vars, rom_config, selected_size, notice,
                   HAS_OPENPYXL>>

\* Line 732 inside calculate_rom_costs: the session's configuration has no
\* 'confluent_annual_cost', line 37 raises.
PreviewRaise == shell_pc = "rom" /\ RaiseKeyError

\* The KeyError is not caught: the run ends before the ROM summary of lines
\* 734-779 and before the export button of line 784.
PreviewFailed ==
    /\ shell_pc = "rom"
    /\ pc = "raised"
    /\ notice' = Notice("exception", "calculate_rom_costs", "KeyError")
    /\ shell_pc' = "wait"
    /\ UNCHANGED <<rom_vars, call_log, storage_vars, reader_vars, rom_config, selected_size,
                   HAS_OPENPYXL>>

InitPage ==
    /\ RomIdle({DEFAULT_ROM_CONFIG})
    /\ StorageIdle({<<>>})
    /\ ReaderIdle({<<>>})
    /\ ShellIdle({TRUE})

NextPage ==
    \/ StartRun
    \/ NoLoad \/ ClickLoadTable \/ ClickLoadTableUnreachable
    \/ TableRowKept \/ TableRowError \/ TableReturn
    \/ LoadTableSucceeded \/ LoadTableFailed
    \/ UploadFile \/ CsvRowShort \/ CsvRowError \/ CsvRowKept \/ CsvReturn \/ Uploaded
    \/ DefaultSkipped \/ DefaultFileLoad \/ DefaultLoaded \/ DefaultFileMissing
    \/ GuardStop \/ GuardPass
    \/ KeepSettings \/ EditRomSettings \/ ResetRomSettings
    \/ SelectSize \/ PageUtilization \/ PageUtilizationRaise \/ AfterUtilization
    \/ PreviewCall \/ PreviewRaise \/ PreviewFailed

\* Runs of the page, one after the other.
SpecPage == InitPage /\ [][NextPage]_vars

----------------------------------------------------------------------------
(* The cost model called while inventories come and go: calls of           *)
(* calculate_rom_costs and of calculate_costs between loads of different   *)
(* files.  The program has one thread: a load starts when no call of       *)
(* calculate_rom_costs is under way, and a call when no load is.           *)

\* How long the log may be when a load or a pricing starts.
MaxProjectionLog == 4

\* The files loaded: one topic, two topics.
ProjectionFileSet ==
    { << Header, << <<"a">>, <<>>, <<"3">>, <<>>, <<>>, <<"1", "G", "B">> >> >>,
      << Header,
         << <<"b">>, <<>>, <<"1", "2">>, <<>>, <<>>, <<"5", "1", "2", "M", "B">> >>,
         << <<"a">>, <<>>, <<"3">>, <<>>, <<>>, <<"1", "G", "B">> >> >> }

InitProjection ==
    /\ RomIdle({ScenarioConfig})
    /\ StorageIdle({<<>>})
    /\ ReaderIdle({<<>>})
    /\ ShellIdle({TRUE})

\* app_rom.py line 163: parse_csv_file on another file.
LoadInventory ==
    /\ reader_pc = "idle"
    /\ pc # "loop"
    /\ Len(call_log) < MaxProjectionLog
    /\ \E f \in ProjectionFileSet : StartCsv(f)
    /\ UNCHANGED <<rom_vars, call_log, storage_vars, shell_vars>>

\* app_rom.py lines 199-201 and 630-631: calculate_costs on a size and the
\* totals of the inventory held.
PriceSize ==
    /\ reader_pc = "idle"
    /\ pc # "loop"
    /\ parsed_data # NoInventory
    /\ Len(call_log) < MaxProjectionLog
    /\ \E size \in PageSizeSet :
          /\ session' = MkSession(size, parsed_data)
          /\ costs' = calculate_costs(MkSession(size, parsed_data))
          /\ call_log' = Append(call_log,
                LogEntry("calculate_costs", MkSession(size, parsed_data), FALSE,
                         calculate_costs(MkSession(size, parsed_data))))
    /\ UNCHANGED <<config, pc, loc, i, operating_variance, cloud_infrastructure_7year,
                   operating_variance_6year, result, utilization_info, storage_vars,
                   reader_vars, shell_vars>>

\* calculate_rom_costs is called while no load is under way.
ProjectionCall == reader_pc = "idle" /\ Call

ProjectionRaise == reader_pc = "idle" /\ RaiseKeyError

NextProjection ==
    \/ ProjectionCall \/ ProjectionRaise \/ LoopStep \/ Return \/ NextCall
    \/ LoadInventory \/ CsvRowKept \/ CsvReturn
    \/ PriceSize

SpecProjection == InitProjection /\ [][NextProjection]_vars

----------------------------------------------------------------------------
(* The exports: generate_rom_export and the spreadsheet renderers of       *)
(* utils/rom_export.py, generate_cost_projection_csv and                   *)
(* generate_cost_projection_excel of utils/export_data.py.  A text is the  *)
(* sequence of its pieces: a piece is one character, or a run of           *)
(* characters without a comma written as one string ("Total"); every comma *)
(* is a piece of its own, so that a line splits at its commas as           *)
(* str.split(',') and a CSV reader without quoting split it.               *)

\* The character of the digit d.
DigitChar(d) == CHOOSE c \in Digits : DigitValue(c) = d

\* str(n) of an integer n >= 0.
RECURSIVE Str(_)
Str(n) == IF n < 10 THEN <<DigitChar(n)>> ELSE Str(n \div 10) \o <<DigitChar(n % 10)>>

\* The digits of n in groups of three with commas between (format ',').
RECURSIVE Grouped(_)
Grouped(n) ==
    IF n < 1000 THEN Str(n)
    ELSE Grouped(n \div 1000)
         \o <<",", DigitChar((n % 1000) \div 100), DigitChar((n % 100) \div 10),
              DigitChar(n % 10)>>

\* The integer nearest to k * x for a float x and an integer k > 0, ties to
\* even: what the formats .0f (k = 1) and .2f (k = 100) make of the digits.
RoundScaled(x, k) ==
    IF x.m = 0 THEN 0
    ELSE IF x.e >= 0 THEN x.m * k * 2^(x.e)
    ELSE IF 0 - x.e >= 24 THEN 0
    ELSE LET d == 2^(0 - x.e)
             q == (x.m * k) \div d
             r == (x.m * k) % d
         IN  IF 2 * r > d \/ (2 * r = d /\ q % 2 = 1) THEN q + 1 ELSE q

\* Lines 12-13: f"${value:,.0f}"
format_in_thousands(value) == <<"$">> \o Grouped(RoundScaled(value, 1))

\* f"${value:.2f}"
Fixed2(value) ==
    LET n == RoundScaled(value, 100)
    IN  <<"$">> \o Str(n \div 100) \o <<".", DigitChar((n % 100) \div 10), DigitChar(n % 10)>>

\* sep.join(texts)
RECURSIVE Join(_, _)
Join(texts, sep) ==
    IF texts = <<>> THEN <<>>
    ELSE IF Len(texts) = 1 THEN texts[1]
    ELSE texts[1] \o sep \o Join(Tail(texts), sep)

\* n commas in a row.
Commas(n) == [k \in 1..n |-> ","]

\* text.split(','): the fields between the commas.
RECURSIVE Fields(_)
Fields(text) ==
    IF \A k \in 1..Len(text) : text[k] # "," THEN <<text>>
    ELSE LET c == CHOOSE k \in 1..Len(text) :
                     text[k] = "," /\ \A j \in 1..(k - 1) : text[j] # ","
         IN  <<SubSeq(text, 1, c - 1)>> \o Fields(SubSeq(text, c + 1, Len(text)))

\* A row of a ledger before formatting: its label, the values of its year
\* cells in the order of the years, the year column of the first value
\* (1 is start_year), and its total.
LedgerRow(label, first, cells, total) ==
    [label |-> label, first |-> first, cells |-> cells, total |-> total]

\* Mutant: the years are written from the last to the first.
CloudCosts_Reversed(results) ==
    [k \in 1..Len(results.operating_variance) |->
        results.operating_variance[Len(results.operating_variance) + 1 - k].cloud_infrastructure]

\* The cloud_infrastructure values of results['operating_variance'].
CloudCosts(results) ==
    [k \in 1..Len(results.operating_variance) |->
        results.operating_variance[k].cloud_infrastructure]

\* The four categories without values.
empty_cats ==
    << "Data Strategy and Governance", "Enterprise Reporting and Dashboard",
       "Advance Modeling", "Service Performance" >>

\* generate_rom_export lines 126-160: the values the rows of the two
\* sections format.
TextLedger(results) ==
    [ initial |->
        << LedgerRow("Data Engineering", 1,
                     <<results.initial_investment[1].data_engineering>>,
                     results.initial_investment[1].data_engineering) >>
        \o [k \in 1..4 |-> LedgerRow(empty_cats[k], 1, <<>>, Zero)]
        \o << LedgerRow("GCP/GKE/Confluent", 1,
                        <<results.initial_investment[1].cloud_infrastructure>>
                            \o CloudCosts(results),
                        results.breakdown.cloud_infrastructure_7year),
              LedgerRow("TOTAL", 1,
                        <<results.initial_investment[1].total>> \o CloudCosts(results),
                        results.breakdown.total_project_cost) >>,
      variance |->
        << LedgerRow("Data Engineering", 2, CloudCosts(results),
                     results.breakdown.operating_variance_6year) >>
        \o [k \in 1..4 |-> LedgerRow(empty_cats[k], 1, <<>>, Zero)]
        \o << LedgerRow("TOTAL", 2, CloudCosts(results),
                        results.breakdown.operating_variance_6year) >> ]

\* The formatted values of a row.
Formatted(cells) == [k \in 1..Len(cells) |-> format_in_thousands(cells[k])]

\* Lines 123-124 and 149: the header of a section.
LedgerHeader(cfg) ==
    <<"Fiscal Year", ",">>
    \o Join([k \in 1..12 |-> Str(cfg.start_year + k - 1)], <<",">>)
    \o <<",", "Total">>

\* Lines 131-134 and 155-158: a category without values.
EmptyCatLine(row) == <<row.label>> \o Commas(12) \o <<"$-">>

\* generate_rom_export, lines 119-160: the title and the two sections of the
\* ledger, one line after the other.  Lines 162-213 (summary, assumptions,
\* timeline and breakdown per feed, which format the same results) are not
\* modelled.
generate_rom_export(cfg, results) ==
    LET ledger == TextLedger(results)
        ini == ledger.initial
        var == ledger.variance
    IN  << <<"Confluent Feed ROM - Rough Order of Magnitude">>,
           <<>>,
           LedgerHeader(cfg),
           <<"INITIAL INVESTMENT EXPENSE">>,
           <<ini[1].label, ",">> \o format_in_thousands(ini[1].cells[1]) \o Commas(11)
               \o <<",">> \o format_in_thousands(ini[1].total),
           EmptyCatLine(ini[2]), EmptyCatLine(ini[3]), EmptyCatLine(ini[4]),
           EmptyCatLine(ini[5]),
           <<ini[6].label, ",">> \o format_in_thousands(ini[6].cells[1]) \o <<",">>
               \o Join(Formatted(Tail(ini[6].cells)), <<",">>) \o Commas(6)
               \o format_in_thousands(ini[6].total),
           <<ini[7].label, ",">> \o format_in_thousands(ini[7].cells[1]) \o <<",">>
               \o Join(Formatted(Tail(ini[7].cells)), <<",">>) \o Commas(6)
               \o format_in_thousands(ini[7].total),
           <<>>,
           <<>>,
           LedgerHeader(cfg),
           <<"OPERATING VARIANCE">>,
           <<var[1].label, ",", ",">> \o Join(Formatted(var[1].cells), <<",">>) \o Commas(6)
               \o format_in_thousands(var[1].total),
           EmptyCatLine(var[2]), EmptyCatLine(var[3]), EmptyCatLine(var[4]),
           EmptyCatLine(var[5]),
           <<var[6].label, ",", ",">> \o Join(Formatted(var[6].cells), <<",">>) \o Commas(6)
               \o format_in_thousands(var[6].total) >>

\* '\n'.join(lines).encode('utf-8'): every character the exports write is
\* ASCII, which UTF-8 encodes as the one byte of its code, so the bytes are
\* the characters in their order, as a bytes object instead of a str.
encode(lines) == [type |-> "bytes", utf8 |-> lines]

\* generate_rom_export_excel lines 617-673 and
\* generate_rom_export_excel_cloud_only lines 427-439: the rows written
\* under the year header; generate_rom_export_excel_de_only has none.
SheetLedger(fn, results) ==
    IF fn = "generate_rom_export_excel"
    THEN TextLedger(results).initial
    ELSE IF fn = "generate_rom_export_excel_cloud_only"
    THEN << LedgerRow("GCP/GKE/Confluent", 1,
                      <<results.initial_investment[1].cloud_infrastructure>>
                          \o CloudCosts(results),
                      results.breakdown.cloud_infrastructure_7year) >>
    ELSE <<>>

\* The workbook a renderer saves when openpyxl is there: its sheet and the
\* values of its ledger.
Workbook(fn, results) ==
    [ type |-> "xlsx",
      title |-> IF fn = "generate_rom_export_excel" THEN "ROM - Complete"
                ELSE IF fn = "generate_rom_export_excel_cloud_only" THEN "ROM - Cloud Only"
                ELSE IF fn = "generate_rom_export_excel_de_only" THEN "ROM - DE Only"
                ELSE "Cost Projection",
      ledger |-> SheetLedger(fn, results) ]

\* Mutant: without openpyxl the renderer returns the text, not its bytes.
RomFallback_Text(cfg, results) == generate_rom_export(cfg, results)

\* Lines 220-221, 329-330 and 483-484: without openpyxl each renderer
\* returns generate_rom_export(config).encode('utf-8').
RomFallback(cfg, results) == encode(generate_rom_export(cfg, results))

\* The spreadsheet renderers of utils/rom_export.py.
ExcelRenderers ==
    { "generate_rom_export_excel", "generate_rom_export_excel_de_only",
      "generate_rom_export_excel_cloud_only" }

RomRenderers == ExcelRenderers \cup {"generate_rom_export"}

\* What generate_cost_projection_csv is given, and the year of the clock it
\* reads at line 23.
ProjectionInput(name, s, year) ==
    [ selected_size |-> name,
      partitions |-> s.size_config.partitions,
      storage_gb |-> s.size_config.storage_gb,
      cku_config |-> s.cku_config,
      flat_costs |-> s.flat_costs,
      costs |-> calculate_costs(s),
      annual_increase_rate |-> Dec(34, 1000),
      current_year |-> year ]

\* export_data.py lines 25-30, 40-47 and 49-52: the head of the text, the
\* breakdown of the current year and the head of the projection.  The CKU
\* lines and the rows of the two tables are not modelled.
generate_cost_projection_csv(in) ==
    << <<"Confluent Cloud Cost Calculator - 7 Year Projection">>,
       <<>>,
       <<"T-Shirt Size:", ",", in.selected_size>>,
       <<"Partitions:", ",">> \o Str(in.partitions),
       <<"Storage (GB):", ",">> \o Str(in.storage_gb),
       <<>>,
       <<"Current Year Cost Breakdown">>,
       <<"Category", ",", "Annual Cost", ",", "Monthly Cost">>,
       <<"Compute (CKU)", ",">> \o Fixed2(in.costs.compute) \o <<",">>
           \o Fixed2(Div(in.costs.compute, FromInt(12))),
       <<"Storage", ",">> \o Fixed2(in.costs.storage) \o <<",">>
           \o Fixed2(Div(in.costs.storage, FromInt(12))),
       <<"Network", ",">> \o Fixed2(in.costs.network) \o <<",">>
           \o Fixed2(Div(in.costs.network, FromInt(12))),
       <<"Governance", ",">> \o Fixed2(in.costs.governance) \o <<",">>
           \o Fixed2(Div(in.costs.governance, FromInt(12))),
       <<"Total", ",">> \o Fixed2(in.costs.total_yearly) \o <<",">>
           \o Fixed2(in.costs.total_monthly),
       <<>>,
       <<"7-Year Cost Projection">>,
       Str(in.current_year) \o <<",">> \o Fixed2(in.costs.compute) >>

\* export_data.py lines 104-109.
ProjectionFallback(in) == encode(generate_cost_projection_csv(in))

\* The configurations exported: the scenario, two ingests of different
\* shapes, no engineering cost at all, and the session's default of the
\* page.
ExportConfigSet ==
    LET ex == [base_network_annual_cost |-> 120000, network_capacity_partitions |-> 100,
               mode |-> "utilization"]
    IN  { ScenarioConfig,
          MkConfig(2, <<Feed(2, 1, FromInt(24)), Feed(1, 1, Dec(48, 1000))>>, 80, 8000,
                   Dec(34, 1000), "annual", ex),
          MkConfig(1, <<Feed(0, 0, FromInt(24))>>, 0, 0, Zero, "annual", ex),
          DEFAULT_ROM_CONFIG }

\* What the cost projection is rendered from: the Medium size against two
\* inventories, at the end of one year and at the start of the next.
ProjectionInputSet ==
    { ProjectionInput("Medium", MkSession(DefaultSize, inv), year) :
        inv \in InventorySet, year \in {2025, 2026} }

\* How many exports one behaviour renders at most.
MaxExports == 2

\* The exports rendered so far.
Exports ==
    { k \in 1..Len(call_log) :
        call_log[k].fn \in RomRenderers
                           \cup {"generate_cost_projection_csv", "generate_cost_projection_excel"} }

InitExport ==
    /\ RomIdle(ExportConfigSet)
    /\ StorageIdle({<<>>})
    /\ ReaderIdle({<<>>})
    /\ ShellIdle({TRUE, FALSE})

\* One of the ROM renderers is called on config.
CallRenderer ==
    /\ shell_pc = "wait"
    /\ pc = "idle"
    /\ shell_pc' \in RomRenderers
    /\ UNCHANGED <<rom_vars, call_log, storage_vars, reader_vars, rom_config, selected_size,
                   notice, HAS_OPENPYXL>>

\* Lines 117, 223, 332 and 486: results = calculate_rom_costs(config).
RendererCall == shell_pc \in RomRenderers /\ Call

RendererKeyError == shell_pc \in RomRenderers /\ RaiseKeyError

\* The KeyError of calculate_rom_costs leaves the renderer.
RendererRaise ==
    /\ shell_pc \in RomRenderers
    /\ pc = "raised"
    /\ call_log' = Append(call_log, LogEntry(shell_pc, config, TRUE, NoResult))
    /\ shell_pc' = "returned"
    /\ UNCHANGED <<rom_vars, storage_vars, reader_vars, rom_config, selected_size, notice,
                   HAS_OPENPYXL>>

\* generate_rom_export returns its text.
GenerateRomExport ==
    /\ shell_pc = "generate_rom_export"
    /\ pc = "done"
    /\ call_log' = Append(call_log,
           LogEntry(shell_pc, config, FALSE, generate_rom_export(config, result)))
    /\ shell_pc' = "returned"
    /\ UNCHANGED <<rom_vars, storage_vars, reader_vars, rom_config, selected_size, notice,
                   HAS_OPENPYXL>>

\* A spreadsheet renderer without openpyxl.
RendererFallback ==
    /\ shell_pc \in ExcelRenderers
    /\ ~HAS_OPENPYXL
    /\ pc = "done"
    /\ call_log' = Append(call_log, LogEntry(shell_pc, config, FALSE, RomFallback(config, result)))
    /\ shell_pc' = "returned"
    /\ UNCHANGED <<rom_vars, storage_vars, reader_vars, rom_config, selected_size, notice,
                   HAS_OPENPYXL>>

\* A spreadsheet renderer with openpyxl: the workbook is built and saved.
RendererWorkbook ==
    /\ shell_pc \in ExcelRenderers
    /\ HAS_OPENPYXL
    /\ pc = "done"
    /\ call_log' = Append(call_log, LogEntry(shell_pc, config, FALSE, Workbook(shell_pc, result)))
    /\ shell_pc' = "returned"
    /\ UNCHANGED <<rom_vars, storage_vars, reader_vars, rom_config, selected_size, notice,
                   HAS_OPENPYXL>>

\* generate_cost_projection_csv on one of the inputs.
GenerateCostProjectionCsv ==
    /\ shell_pc = "wait"
    /\ pc = "idle"
    /\ \E in \in ProjectionInputSet :
          call_log' = Append(call_log,
              LogEntry("generate_cost_projection_csv", in, FALSE,
                       generate_cost_projection_csv(in)))
    /\ shell_pc' = "returned"
    /\ UNCHANGED <<rom_vars, storage_vars, reader_vars, rom_config, selected_size, notice,
                   HAS_OPENPYXL>>

\* generate_cost_projection_excel without openpyxl.
CostProjectionFallback ==
    /\ shell_pc = "wait"
    /\ pc = "idle"
    /\ ~HAS_OPENPYXL
    /\ \E in \in ProjectionInputSet :
          call_log' = Append(call_log,
              LogEntry("generate_cost_projection_excel", in, FALSE, ProjectionFallback(in)))
    /\ shell_pc' = "returned"
    /\ UNCHANGED <<rom_vars, storage_vars, reader_vars, rom_config, selected_size, notice,
                   HAS_OPENPYXL>>

\* generate_cost_projection_excel with openpyxl.
CostProjectionWorkbook ==
    /\ shell_pc = "wait"
    /\ pc = "idle"
    /\ HAS_OPENPYXL
    /\ \E in \in ProjectionInputSet :
          call_log' = Append(call_log,
              LogEntry("generate_cost_projection_excel", in, FALSE,
                       Workbook("generate_cost_projection_excel", NoResult)))
    /\ shell_pc' = "returned"
    /\ UNCHANGED <<rom_vars, storage_vars, reader_vars, rom_config, selected_size, notice,
                   HAS_OPENPYXL>>

\* The caller renders another export, of the same configuration or of
\* another.
NextRenderer ==
    /\ shell_pc = "returned"
    /\ Cardinality(Exports) < MaxExports
    /\ config' \in ExportConfigSet
    /\ pc' = "idle"
    /\ shell_pc' = "wait"
    /\ UNCHANGED <<loc, i, operating_variance, cloud_infrastructure_7year,
                   operating_variance_6year, result, session, costs, utilization_info,
                   call_log, storage_vars, reader_vars, rom_config, selected_size, notice,
                   HAS_OPENPYXL>>

NextExport ==
    \/ CallRenderer \/ RendererCall \/ RendererKeyError \/ LoopStep \/ Return
    \/ RendererRaise \/ GenerateRomExport \/ RendererFallback \/ RendererWorkbook
    \/ GenerateCostProjectionCsv \/ CostProjectionFallback \/ CostProjectionWorkbook
    \/ NextRenderer

\* Exports rendered one after the other, with and without openpyxl.
SpecExport == InitExport /\ [][NextExport]_vars

----------------------------------------------------------------------------
(* Helpers of the properties.                                              *)

\* The integer n is a float without rounding.
ExactInt(n) ==
    LET f == FromInt(n)
    IN  IF f.e >= 0 THEN f.m * 2^(f.e) = n ELSE f.m = n * 2^(0 - f.e)

\* Every integer the checked configurations turn into a float is exact, as it
\* is for Python's 53-bit floats.
IntegersExact ==
    \A cfg \in ConfigSet :
        /\ ExactInt(SumInbound(cfg.feed_configs) * cfg.inbound_hours * cfg.de_hourly_rate)
        /\ ExactInt(SumOutbound(cfg.feed_configs) * cfg.outbound_hours * cfg.de_hourly_rate)
        /\ ExactInt(SumInbound(cfg.feed_configs) * cfg.inbound_hours * cfg.de_hourly_rate
                    + SumOutbound(cfg.feed_configs) * cfg.outbound_hours * cfg.de_hourly_rate)
        /\ ExactInt(cfg.workspace_setup_cost)
        /\ ExactInt(cfg.confluent_annual_cost * cfg.num_ingests)
        /\ ExactInt(cfg.gcp_per_feed_annual_cost * cfg.num_ingests)
        /\ ExactInt(base_network_annual)
        /\ ExactInt(cfg.base_network_annual_cost)

\* |x - y| <= k * 2^(ref.e): x and y are within k units in the last place of
\* ref.  For k < 16 and ref # 0; answers FALSE when it cannot tell (ref more
\* than 2^8 times larger than x and y, which are far apart).
WithinUlps(x, y, k, ref) ==
    IF x = y THEN TRUE
    ELSE IF x.m = 0 \/ y.m = 0 THEN FALSE
    ELSE LET emax == IF x.e > y.e THEN x.e ELSE y.e
             emin == IF x.e > y.e THEN y.e ELSE x.e
             dist == LET xs == x.m * 2^(x.e - emin)
                         ys == y.m * 2^(y.e - emin)
                     IN  IF xs > ys THEN xs - ys ELSE ys - xs
         IN  IF emax - emin >= 2 THEN FALSE
             ELSE IF ref.e >= emin
                  THEN IF ref.e - emin >= Precision + 1 THEN TRUE
                       ELSE dist <= k * 2^(ref.e - emin)
                  ELSE IF emin - ref.e >= 8 THEN FALSE
                       ELSE dist * 2^(emin - ref.e) <= k

\* The cloud_infrastructure values of a list of yearly entries added to start
\* one after the other, first entry first.
RECURSIVE AccumulatedFrom(_, _)
AccumulatedFrom(start, entries) ==
    IF entries = <<>> THEN start
    ELSE Add(AccumulatedFrom(start, SubSeq(entries, 1, Len(entries) - 1)),
             entries[Len(entries)].cloud_infrastructure)

NonZero(x) == x.m # 0

----------------------------------------------------------------------------
(* C1: total_project_cost is one_time_development plus                     *)
(* cloud_infrastructure_7year in every returned breakdown.                 *)
C1_TotalProjectCost ==
    Returned => B.total_project_cost = Add(B.one_time_development, B.cloud_infrastructure_7year)

C1_Witness ==
    /\ Returned
    /\ NonZero(B.one_time_development)
    /\ NonZero(B.cloud_infrastructure_7year)
    /\ Lt(B.cloud_infrastructure_7year, B.total_project_cost)
    /\ Lt(B.one_time_development, B.total_project_cost)

(* C2 as stated: cloud_infrastructure_7year - first_year_cloud_cost is     *)
(* exactly operating_variance_6year, which is the in-order sum of the      *)
(* entries' cloud_infrastructure values.                                   *)
C2_ExactDifference ==
    Returned =>
        /\ Sub(B.cloud_infrastructure_7year, B.first_year_cloud_cost) = B.operating_variance_6year
        /\ B.operating_variance_6year = AccumulatedFrom(Zero, result.operating_variance)

(* C2 amended: operating_variance_6year is the entries' values added in    *)
(* year order starting from 0, cloud_infrastructure_7year is the same      *)
(* values added in the same order starting from first_year_cloud_cost, and *)
(* the float difference of the two totals is within 6 units in the last    *)
(* place of cloud_infrastructure_7year of operating_variance_6year.        *)
C2_DifferenceUpToRounding ==
    Returned =>
        /\ B.operating_variance_6year = AccumulatedFrom(Zero, result.operating_variance)
        /\ B.cloud_infrastructure_7year =
               AccumulatedFrom(B.first_year_cloud_cost, result.operating_variance)
        /\ \A k \in 1..Len(result.operating_variance) :
               result.operating_variance[k].year = config.start_year + k
        /\ WithinUlps(Sub(B.cloud_infrastructure_7year, B.first_year_cloud_cost),
                      B.operating_variance_6year, 6, B.cloud_infrastructure_7year)

C2_Witness ==
    /\ Returned
    /\ NonZero(B.first_year_cloud_cost)
    /\ Sub(B.cloud_infrastructure_7year, B.first_year_cloud_cost) # B.operating_variance_6year

\* The first-year cloud cost escalated component by component.
ComponentWise(k) ==
    LET g == Pow(Add(One, config.escalation_rate), k)
    IN  Add(Add(Mul(B.confluent_cost, g), Mul(B.gcp_cost, g)), Mul(B.network_cost, g))

(* C3: the call returns exactly 6 operating-variance entries; entry k is   *)
(* labelled start_year + k and costs first_year_cloud_cost times           *)
(* (1 + escalation_rate)^k, first_year_cloud_cost being the sum of the     *)
(* platform, compute and network cost (the whole is escalated, not each    *)
(* component).                                                             *)
C3_SixEscalatedYears ==
    /\ pc = "loop" => Len(operating_variance) = i - 1
    /\ Returned =>
        /\ Len(result.operating_variance) = 6
        /\ B.first_year_cloud_cost = Add(Add(B.confluent_cost, B.gcp_cost), B.network_cost)
        /\ \A k \in 1..6 :
            /\ result.operating_variance[k].year = config.start_year + k
            /\ result.operating_variance[k].cloud_infrastructure =
                   Mul(B.first_year_cloud_cost, Pow(Add(One, config.escalation_rate), k))

\* A returned projection in which escalating the whole differs from
\* escalating the components.
C3_Witness ==
    /\ Returned
    /\ NonZero(config.escalation_rate)
    /\ NonZero(B.confluent_cost) /\ NonZero(B.gcp_cost) /\ NonZero(B.network_cost)
    /\ \E k \in 1..6 : result.operating_variance[k].cloud_infrastructure # ComponentWise(k)

(* C4 as stated: with escalation_rate 0 every escalated year equals        *)
(* first_year_cloud_cost, operating_variance_6year is exactly 6 times and  *)
(* cloud_infrastructure_7year exactly 7 times first_year_cloud_cost.       *)
C4_ExactMultiples ==
    (Returned /\ config.escalation_rate = Zero) =>
        /\ \A k \in 1..6 :
               result.operating_variance[k].cloud_infrastructure = B.first_year_cloud_cost
        /\ B.operating_variance_6year = Mul(FromInt(6), B.first_year_cloud_cost)
        /\ B.cloud_infrastructure_7year = Mul(FromInt(7), B.first_year_cloud_cost)

\* x added to itself until there are n copies, n >= 1.
RECURSIVE RepeatedSum(_, _)
RepeatedSum(x, n) == IF n = 1 THEN x ELSE Add(RepeatedSum(x, n - 1), x)

(* C4 amended: with escalation_rate 0 every escalated year equals          *)
(* first_year_cloud_cost; operating_variance_6year is the float sum of 6   *)
(* and cloud_infrastructure_7year of 7 copies of it added one at a time,   *)
(* each within 3 units in the last place of 6 times, respectively 7 times, *)
(* first_year_cloud_cost.                                                  *)
C4_FlatUpToRounding ==
    (Returned /\ config.escalation_rate = Zero) =>
        /\ \A k \in 1..6 :
               result.operating_variance[k].cloud_infrastructure = B.first_year_cloud_cost
        /\ B.operating_variance_6year = RepeatedSum(B.first_year_cloud_cost, 6)
        /\ B.cloud_infrastructure_7year = RepeatedSum(B.first_year_cloud_cost, 7)
        /\ WithinUlps(B.operating_variance_6year, Mul(FromInt(6), B.first_year_cloud_cost), 3,
                      IF Lt(B.operating_variance_6year, Mul(FromInt(6), B.first_year_cloud_cost))
                      THEN Mul(FromInt(6), B.first_year_cloud_cost)
                      ELSE B.operating_variance_6year)
        /\ WithinUlps(B.cloud_infrastructure_7year, Mul(FromInt(7), B.first_year_cloud_cost), 3,
                      IF Lt(B.cloud_infrastructure_7year, Mul(FromInt(7), B.first_year_cloud_cost))
                      THEN Mul(FromInt(7), B.first_year_cloud_cost)
                      ELSE B.cloud_infrastructure_7year)

C4_Witness ==
    /\ Returned
    /\ config.escalation_rate = Zero
    /\ NonZero(B.first_year_cloud_cost)
    /\ \/ B.operating_variance_6year # Mul(FromInt(6), B.first_year_cloud_cost)
       \/ B.cloud_infrastructure_7year # Mul(FromInt(7), B.first_year_cloud_cost)

\* The scenario of the specification: one ingest with one inbound and one
\* outbound topic, rate 80, hours 296 / 254 / 27.9, setup cost 8000.
Scenario ==
    /\ config.num_ingests = 1
    /\ SumInbound(config.feed_configs) = 1
    /\ SumOutbound(config.feed_configs) = 1
    /\ config.de_hourly_rate = 80
    /\ config.inbound_hours = 296
    /\ config.outbound_hours = 254
    /\ config.normalization_hours = Dec(279, 10)
    /\ config.workspace_setup_cost = 8000

(* C5: inbound and outbound cost are the topic counts summed over the feed *)
(* descriptors times the hours per topic times the hourly rate,            *)
(* normalization cost is normalization_hours times the rate times the      *)
(* number of ingests, the one-time total is their sum plus the setup cost, *)
(* and the scenario's one-time total is 54232.                             *)
C5_OneTimeEngineering ==
    Returned =>
        /\ B.inbound_cost =
               Mul(Mul(FromInt(SumInbound(config.feed_configs)), FromInt(config.inbound_hours)),
                   FromInt(config.de_hourly_rate))
        /\ B.outbound_cost =
               Mul(Mul(FromInt(SumOutbound(config.feed_configs)), FromInt(config.outbound_hours)),
                   FromInt(config.de_hourly_rate))
        /\ B.normalization_cost =
               Mul(Mul(config.normalization_hours, FromInt(config.de_hourly_rate)),
                   FromInt(config.num_ingests))
        /\ B.one_time_development =
               Add(Add(Add(B.inbound_cost, B.outbound_cost), B.normalization_cost),
                   FromInt(config.workspace_setup_cost))
        /\ Scenario => B.one_time_development = FromInt(54232)

C5_Witness ==
    /\ Returned
    /\ Scenario
    /\ ExactInt(54232)
    /\ B.one_time_development = FromInt(54232)
    /\ B.inbound_cost = FromInt(23680)
    /\ B.outbound_cost = FromInt(20320)
    /\ B.normalization_cost = FromInt(2232)

\* A returned breakdown whose ingest count differs from its topic counts.
C5_WitnessPerIngest ==
    /\ Returned
    /\ config.num_ingests = 2
    /\ SumInbound(config.feed_configs) = 1
    /\ NonZero(B.normalization_cost)

C7_ConfiguredNetworkCost ==
    Returned =>
        B.network_cost =
            Mul(FromInt(config.base_network_annual_cost),
                Div(result.total_partitions, FromInt(config.network_capacity_partitions)))

(* C8: in flat mode the platform cost is the annual platform rate, the     *)
(* compute cost is the total feed count times the annual per-feed rate,    *)
(* there is no network cost, and the first-year cloud cost is their sum    *)
(* (30267 for rates 11709 and 9279 with one inbound and one outbound       *)
(* feed).                                                                  *)
C8_FlatMode ==
    (Returned /\ config.mode = "flat") =>
        LET feeds == SumInbound(config.feed_configs) + SumOutbound(config.feed_configs)
        IN  /\ B.confluent_cost = FromInt(config.confluent_annual_cost)
            /\ B.gcp_cost = FromInt(feeds * config.gcp_per_feed_annual_cost)
            /\ B.network_cost = Zero
            /\ B.first_year_cloud_cost =
                   FromInt(config.confluent_annual_cost + feeds * config.gcp_per_feed_annual_cost)

ZeroTopics == SumInbound(config.feed_configs) = 0 /\ SumOutbound(config.feed_configs) = 0

ZeroIngests == config.num_ingests = 0

AllCostsZero ==
    /\ B.inbound_cost = Zero /\ B.outbound_cost = Zero /\ B.normalization_cost = Zero
    /\ B.one_time_development = Zero
    /\ B.confluent_cost = Zero /\ B.gcp_cost = Zero /\ B.network_cost = Zero
    /\ B.first_year_cloud_cost = Zero
    /\ \A k \in 1..Len(result.operating_variance) :
           result.operating_variance[k].cloud_infrastructure = Zero
    /\ B.operating_variance_6year = Zero
    /\ B.cloud_infrastructure_7year = Zero
    /\ B.total_project_cost = Zero

(* C9 as stated: with zero ingests or zero topics the call raises no error *)
(* and every derived cost of the breakdown is 0.                           *)
C9_AllZero ==
    (config.keys = "annual" /\ (ZeroIngests \/ ZeroTopics)) =>
        /\ pc # "raised"
        /\ Returned => AllCostsZero

(* C9 amended: with zero ingests or zero topics the call raises no error;  *)
(* zero topics make the inbound and outbound cost 0, zero ingests make the *)
(* normalization, platform and compute cost 0 (the first-year cloud cost   *)
(* is then the network cost), and every derived cost is 0 when, besides    *)
(* zero ingests and zero topics, the setup cost and the partition shares   *)
(* are 0.                                                                  *)
C9_ZeroInputs ==
    (config.keys = "annual" /\ (ZeroIngests \/ ZeroTopics)) =>
        /\ pc # "raised"
        /\ Returned =>
            /\ ZeroTopics => B.inbound_cost = Zero /\ B.outbound_cost = Zero
            /\ ZeroIngests =>
                /\ B.normalization_cost = Zero
                /\ B.confluent_cost = Zero
                /\ B.gcp_cost = Zero
                /\ B.first_year_cloud_cost = B.network_cost
            /\ (ZeroTopics /\ ZeroIngests) =>
                   B.one_time_development = FromInt(config.workspace_setup_cost)
            /\ (ZeroTopics /\ ZeroIngests /\ config.workspace_setup_cost = 0
                /\ SumPartitions(config.feed_configs) = Zero) => AllCostsZero

\* Zero topics and one ingest, returned with costs that are not 0.
C9_Witness ==
    /\ Returned
    /\ ZeroTopics
    /\ config.num_ingests = 1
    /\ B.inbound_cost = Zero /\ B.outbound_cost = Zero
    /\ NonZero(B.normalization_cost)
    /\ NonZero(B.first_year_cloud_cost)

\* Zero ingests, zero topics, no setup cost and no partitions: all 0.
C9_WitnessAllZero ==
    /\ Returned
    /\ ZeroTopics /\ ZeroIngests
    /\ AllCostsZero

(* C10: calls with equal inputs return equal results whatever was called   *)
(* before, for calculate_rom_costs and for calculate_costs, and the loop   *)
(* adds the escalated years in the order 1..6.                             *)
C10_Deterministic ==
    /\ \A a, b \in 1..Len(call_log) :
          (call_log[a].fn = call_log[b].fn /\ call_log[a].input = call_log[b].input)
              => /\ call_log[a].raised = call_log[b].raised
                 /\ call_log[a].output = call_log[b].output
    /\ pc = "loop" =>
          /\ \A k \in 1..Len(operating_variance) :
                 operating_variance[k].year = config.start_year + k
          /\ Len(operating_variance) = i - 1
          /\ operating_variance_6year = AccumulatedFrom(Zero, operating_variance)
          /\ cloud_infrastructure_7year =
                 AccumulatedFrom(loc.first_year_cloud_cost, operating_variance)

\* The same configuration returned twice with a call on another
\* configuration in between.
C10_Witness ==
    /\ Len(call_log) = 3
    /\ call_log[1].fn = "calculate_rom_costs"
    /\ call_log[2].fn = "calculate_rom_costs"
    /\ call_log[3].fn = "calculate_rom_costs"
    /\ call_log[1].input = call_log[3].input
    /\ call_log[1].input # call_log[2].input
    /\ ~call_log[1].raised
    /\ ~call_log[2].raised
    /\ call_log[1].output # call_log[2].output
    /\ call_log[1].output = call_log[3].output
    /\ NonZero(call_log[3].output.breakdown.operating_variance_6year)

\* a <= b
Le(a, b) == ~Lt(b, a)

\* x is a float of the model that is not below 0: 0 itself, or a significand
\* of exactly Precision bits.
NonNegative(x) == x.m = 0 \/ (x.m >= 2^(Precision - 1) /\ x.m < 2^Precision)

Parsed == storage_gb # NotCalled

\* v gigabytes, bytes, ... of unit u in gigabytes, by binary scaling.
InGigabytes(v, u) ==
    CASE u = "TB" -> Mul(v, FromInt(1024))
      [] u = "GB" -> v
      [] u = "MB" -> Div(v, FromInt(1024))
      [] u = "KB" -> Div(Div(v, FromInt(1024)), FromInt(1024))
      [] u = "B" -> Div(Div(Div(v, FromInt(1024)), FromInt(1024)), FromInt(1024))

RecognizedUnits == {"TB", "GB", "MB", "KB", "B"}

(* C12: a numeral followed by optional whitespace and one of the unit      *)
(* suffixes TB, GB, MB, KB, B in any case is converted to gigabytes by     *)
(* binary scaling: TB times 1024, GB as is, MB divided by 1024, KB by      *)
(* 1024^2, B by 1024^3.                                                    *)
C12_BinaryScaling ==
    Parsed =>
        \A num \in NumeralSet, ws \in SpaceSet, u \in UnitSet, pad \in PadSet :
            (storage_str = Spelled(num, ws, u, pad) /\ u.unit \in RecognizedUnits) =>
                /\ ~storage_gb.raised
                /\ storage_gb.value = InGigabytes(Dec(num.n, num.d), u.unit)

\* 1.5 written with whitespace and a lower-case unit has been converted.
C12_Witness ==
    /\ Parsed
    /\ storage_str = <<" ", "1", ".", "5", " ", " ", "m", "b", " ">>
    /\ ~storage_gb.raised
    /\ storage_gb.value = Div(Dec(3, 2), FromInt(1024))
    /\ NonZero(storage_gb.value)

\* The value the logged call on the string s returned; holds for no value
\* when the call raised.
Converted(k, s, v) ==
    /\ call_log[k].fn = "parse_storage_to_gb"
    /\ call_log[k].input = s
    /\ ~call_log[k].raised
    /\ call_log[k].output = v

(* C13: for every magnitude n and every unit with the next larger one,     *)
(* 1024 * n of the smaller unit converts to the same value as n of the     *)
(* larger (1024 B = 1 KB, 1024 KB = 1 MB, 1024 MB = 1 GB, 1024 GB = 1 TB), *)
(* and n TB converts to 1024 times what n GB converts to.                  *)
C13_UnitsConsistent ==
    \A a, b \in 1..Len(call_log) :
        \A n \in MagnitudeSet :
            /\ \A u \in UnitSteps :
                  (call_log[a].input = n.times1024 \o u.small /\ call_log[b].input = n.text \o u.large)
                      => /\ ~call_log[a].raised /\ ~call_log[b].raised
                         /\ call_log[a].output = call_log[b].output
            /\ (call_log[a].input = n.text \o <<"T", "B">> /\ call_log[b].input = n.text \o <<"G", "B">>)
                      => /\ ~call_log[a].raised /\ ~call_log[b].raised
                         /\ call_log[a].output = Mul(FromInt(1024), call_log[b].output)

\* 102.4 MB and 0.1 GB have both been converted, to the same value.
C13_Witness ==
    /\ Len(call_log) = 2
    /\ \E v \in {call_log[1].output} :
          /\ Converted(1, <<"1", "0", "2", ".", "4", "M", "B">>, v)
          /\ Converted(2, <<"0", ".", "1", "G", "B">>, v)
          /\ NonZero(v)

\* 1 TB and 1 GB have both been converted.
C13_WitnessTerabyte ==
    /\ Len(call_log) = 2
    /\ Converted(1, <<"1", "T", "B">>, FromInt(1024))
    /\ Converted(2, <<"1", "G", "B">>, One)

(* C14: a numeral with no unit suffix, or with a suffix that is none of B, *)
(* KB, MB, GB, TB, is converted as a number of bytes (divided by 1024^3).  *)
C14_DefaultBytes ==
    Parsed =>
        \A num \in NumeralSet, ws \in SpaceSet, u \in UnitSet, pad \in PadSet :
            (storage_str = Spelled(num, ws, u, pad) /\ u.unit \notin RecognizedUnits) =>
                /\ ~storage_gb.raised
                /\ storage_gb.value = InGigabytes(Dec(num.n, num.d), "B")

\* The string has no leading numeral that is a decimal: it is empty or
\* blank, does not start with a digit or a dot, or starts with digits and
\* dots that float() rejects.
Unparsable(s) ==
    LET t == strip(s)
        n1 == RunLength(t, 1, Digits \cup {"."})
    IN  n1 = 0 \/ ~FloatAccepts(SubSeq(t, 1, n1))

(* C15: parse_storage_to_gb never raises, whatever the string, and returns *)
(* 0 for an empty, blank, non-numeric or otherwise unparsable string       *)
(* (such as "." or "1.2.3").                                               *)
C15_Total ==
    Parsed =>
        /\ ~storage_gb.raised
        /\ Unparsable(storage_str) => storage_gb.value = Zero

\* The data rows of a file: all but the header.
DataRows(file) == IF file = <<>> THEN <<>> ELSE Tail(file)

\* A row with at least 6 columns whose partition field is blank or an
\* integer.
ValidRow(row) == Len(row) >= 6 /\ (strip(row[3]) = <<>> \/ IntAccepts(row[3]))

\* The partition count of a valid row, a blank field counting as 0.
RowPartitions(row) == IF strip(row[3]) = <<>> THEN 0 ELSE int(row[3])

\* The storage of a valid row in gigabytes, 0 when the field is unparsable.
RowStorage(row) ==
    IF parse_storage_to_gb(strip(row[6])).raised THEN Zero
    ELSE parse_storage_to_gb(strip(row[6])).value

RECURSIVE SumRowPartitions(_)
SumRowPartitions(rs) ==
    IF rs = <<>> THEN 0
    ELSE SumRowPartitions(SubSeq(rs, 1, Len(rs) - 1)) + RowPartitions(rs[Len(rs)])

RECURSIVE SumRowStorage(_)
SumRowStorage(rs) ==
    IF rs = <<>> THEN Zero
    ELSE Add(SumRowStorage(SubSeq(rs, 1, Len(rs) - 1)), RowStorage(rs[Len(rs)]))

(* C16: parse_csv_file never raises because of a row, ignores the header,  *)
(* skips the data rows with fewer than 6 columns or a partition field that *)
(* is no integer, and returns the sums over the remaining rows, in which a *)
(* blank partition field counts as 0.                                      *)
C16_SkipsMalformedRows ==
    \A k \in 1..Len(call_log) :
        call_log[k].fn = "parse_csv_file" =>
            LET kept == SelectSeq(DataRows(call_log[k].input), ValidRow)
            IN  /\ ~call_log[k].raised
                /\ call_log[k].output.total_partitions = SumRowPartitions(kept)
                /\ call_log[k].output.total_storage_gb = SumRowStorage(kept)
                /\ Len(call_log[k].output.topics) = Len(kept)
                /\ \A j \in 1..Len(kept) :
                       j <= Len(call_log[k].output.topics) =>
                           call_log[k].output.topics[j].name = strip(kept[j][1])

(* C17: loaded from the table, the rows of a file give the inventory the   *)
(* file gives: a row whose partition count or storage value is unparsable  *)
(* is skipped and the others are aggregated, with the same totals and the  *)
(* same items in the same order.                                           *)
C17_TableAsFile ==
    \A a, b \in 1..Len(call_log) :
        ( /\ call_log[a].fn = "parse_csv_file"
          /\ call_log[b].fn = "parse_databricks_table"
          /\ call_log[b].input.unreachable = "no"
          /\ call_log[b].input.table = TableOf(call_log[a].input) ) =>
            /\ ~call_log[b].raised
            /\ call_log[b].output = call_log[a].output

(* C18: when the table cannot be reached, parse_databricks_table returns   *)
(* no inventory (the inventory held before stays) and fails with an error  *)
(* that carries the underlying cause.                                      *)
C18_SourceUnavailable ==
    /\ \A k \in 1..Len(call_log) :
          (call_log[k].fn = "parse_databricks_table" /\ call_log[k].input.unreachable # "no") =>
              /\ call_log[k].raised
              /\ call_log[k].output.cause = call_log[k].input.unreachable
              /\ call_log[k].output.message =
                     <<"Failed to load Databricks table: ", call_log[k].input.unreachable>>
    /\ (\A k \in 1..Len(call_log) : call_log[k].raised) => parsed_data = NoInventory
    /\ \A k \in 1..Len(call_log) :
          (~call_log[k].raised /\ \A j \in (k + 1)..Len(call_log) : call_log[j].raised)
              => (reader_pc = "idle" => parsed_data = call_log[k].output)

\* A file has been loaded, then the table could not be reached: the call
\* failed with the cause and the inventory of the file is still held.
C18_Witness ==
    /\ Len(call_log) = 2
    /\ call_log[1].fn = "parse_csv_file"
    /\ call_log[1].output.topics # <<>>
    /\ call_log[2].fn = "parse_databricks_table"
    /\ call_log[2].input.unreachable = "ConnectionError"
    /\ call_log[2].raised
    /\ call_log[2].output.cause = "ConnectionError"
    /\ parsed_data = call_log[1].output

\* The view has been recomputed.
Recomputed == costs # NoCosts

(* C19: in the prorated view compute is the partition ratio                *)
(* size.partitions / total_partitions times the yearly CKU cost (ckus      *)
(* times rate times 12, summed over the providers), storage and governance *)
(* are the storage ratio size.storage_gb / total_storage_gb times the flat *)
(* storage and governance cost, network is the flat network cost times the *)
(* network multiplier whatever the size and the inventory, total_yearly is *)
(* compute + storage + network + governance and total_monthly is           *)
(* total_yearly / 12.                                                      *)
C19_ProratedView ==
    Recomputed =>
        LET ckus == 12 * (session.cku_config.azure_ckus * session.cku_config.azure_rate
                          + session.cku_config.gcp_ckus * session.cku_config.gcp_rate)
        IN  /\ session.TOTAL_PARTITIONS > 0 =>
                   costs.compute =
                       Mul(Dec(session.size_config.partitions, session.TOTAL_PARTITIONS),
                           FromInt(ckus))
            /\ NonZero(session.TOTAL_STORAGE_GB) =>
                   /\ costs.storage =
                          Mul(Div(FromInt(session.size_config.storage_gb), session.TOTAL_STORAGE_GB),
                              FromInt(session.flat_costs.storage))
                   /\ costs.governance =
                          Mul(Div(FromInt(session.size_config.storage_gb), session.TOTAL_STORAGE_GB),
                              FromInt(session.flat_costs.governance))
            /\ costs.network =
                   Mul(FromInt(session.flat_costs.network), session.flat_costs.network_multiplier)
            /\ costs.total_yearly =
                   Add(Add(Add(costs.compute, costs.storage), costs.network), costs.governance)
            /\ costs.total_monthly = Div(costs.total_yearly, FromInt(12))

\* The Small size prorated against a loaded inventory: every part of the
\* view is positive and the network cost is the whole flat network cost.
C19_Witness ==
    /\ Recomputed
    /\ session.size_config.partitions = 6
    /\ session.TOTAL_PARTITIONS = 197
    /\ NonZero(session.TOTAL_STORAGE_GB)
    /\ NonZero(costs.compute) /\ NonZero(costs.storage) /\ NonZero(costs.governance)
    /\ costs.network = FromInt(90000)
    /\ Lt(costs.compute, costs.network)
    /\ Lt(costs.network, costs.total_yearly)

(* C20: with an inventory whose total_partitions is 0 the partition ratio  *)
(* is 0, with one whose total_storage_gb is 0 the storage ratio is 0, and  *)
(* nothing in the recomputation of the view, the utilization percentages   *)
(* included, raises a division by zero.                                    *)
C20_NoDivisionByZero ==
    /\ (Recomputed /\ session.TOTAL_PARTITIONS = 0) => costs.compute = Zero
    /\ (Recomputed /\ session.TOTAL_STORAGE_GB = Zero) =>
           costs.storage = Zero /\ costs.governance = Zero
    /\ (session.TOTAL_PARTITIONS = 0 \/ session.TOTAL_STORAGE_GB = Zero) =>
           ~utilization_info.raised

----------------------------------------------------------------------------
(* The inventory and the two views of the cost.                            *)

\* The inventory held when entry k of the log was written: what the last
\* load before it returned.
RECURSIVE HeldAt(_)
HeldAt(k) ==
    IF k <= 1 THEN NoInventory
    ELSE IF /\ call_log[k - 1].fn \in {"parse_csv_file", "parse_databricks_table"}
            /\ ~call_log[k - 1].raised
         THEN call_log[k - 1].output
         ELSE HeldAt(k - 1)

\* The calls of fn that returned.
ReturnedCalls(fn) ==
    { k \in 1..Len(call_log) : call_log[k].fn = fn /\ ~call_log[k].raised }

\* C21: the ROM projection does not depend on the inventory held: its
\* utilization is the sum of the feeds' partition shares over 100, and two
\* calls on the same configuration under different inventories return the
\* same breakdown; the prorated view prices the size against the totals of
\* the inventory held.
C21_ProjectionIgnoresInventory ==
    /\ \A a, b \in ReturnedCalls("calculate_rom_costs") :
          call_log[a].input = call_log[b].input
              => call_log[a].output.breakdown = call_log[b].output.breakdown
    /\ \A a \in ReturnedCalls("calculate_rom_costs") :
          /\ call_log[a].output.breakdown.network_cost =
                Mul(FromInt(base_network_annual),
                    Div(SumPartitions(call_log[a].input.feed_configs), FromInt(100)))
          /\ call_log[a].output.breakdown.confluent_cost =
                Mul(FromInt(call_log[a].input.confluent_annual_cost
                            * call_log[a].input.num_ingests),
                    Add(One, Div(SumPartitions(call_log[a].input.feed_configs), FromInt(100))))
    /\ \A k \in ReturnedCalls("calculate_costs") :
          /\ HeldAt(k) # NoInventory
          /\ call_log[k].input.TOTAL_PARTITIONS = HeldAt(k).total_partitions
          /\ call_log[k].input.TOTAL_STORAGE_GB = HeldAt(k).total_storage_gb
          /\ call_log[k].output.compute =
                Mul(Dec(call_log[k].input.size_config.partitions, HeldAt(k).total_partitions),
                    FromInt(call_log[k].input.cku_config.azure_ckus
                              * call_log[k].input.cku_config.azure_rate * 12
                            + call_log[k].input.cku_config.gcp_ckus
                              * call_log[k].input.cku_config.gcp_rate * 12))

\* The same configuration returned under two inventories with different
\* partition totals.
C21_Witness ==
    \E a, b \in ReturnedCalls("calculate_rom_costs") :
        /\ a < b
        /\ call_log[a].input = call_log[b].input
        /\ HeldAt(a) # NoInventory
        /\ HeldAt(b) # NoInventory
        /\ HeldAt(a).total_partitions # HeldAt(b).total_partitions

\* The same size priced under two inventories, with different costs.
C21_WitnessView ==
    \E a, b \in ReturnedCalls("calculate_costs") :
        /\ call_log[a].input.size_config = call_log[b].input.size_config
        /\ HeldAt(a) # HeldAt(b)
        /\ call_log[a].output.compute # call_log[b].output.compute

----------------------------------------------------------------------------
(* Loads on the page.                                                      *)

\* The loads that returned.
Loads ==
    { k \in 1..Len(call_log) :
        /\ call_log[k].fn \in {"parse_csv_file", "parse_databricks_table"}
        /\ ~call_log[k].raised }

KeptByCsv(row) == CsvRowOutcome(row).kind = "kept"

\* The records the rows of one file give, in the order of the rows.
RecordsOfFile(file) ==
    LET kept == SelectSeq(DataRows(file), KeptByCsv)
    IN  [j \in 1..Len(kept) |-> CsvRowOutcome(kept[j]).topic]

\* The records the rows of one table give.
RecordsOfTable(table) == [j \in 1..Len(table) |-> TableRowOutcome(table[j]).topic]

RECURSIVE SumTopicPartitions(_)
SumTopicPartitions(ts) ==
    IF ts = <<>> THEN 0
    ELSE SumTopicPartitions(SubSeq(ts, 1, Len(ts) - 1)) + ts[Len(ts)].partitions

RECURSIVE SumTopicStorage(_)
SumTopicStorage(ts) ==
    IF ts = <<>> THEN Zero
    ELSE Add(SumTopicStorage(SubSeq(ts, 1, Len(ts) - 1)), ts[Len(ts)].storage_gb)

\* C22: a load replaces the inventory wholesale: between loads the inventory
\* held is what the most recent load that returned gave back (none before
\* the first), and what a load gives back are the records of its own rows
\* and the totals over these records, with nothing of an earlier load.
C22_LoadReplaces ==
    /\ reader_pc = "idle" => parsed_data = HeldAt(Len(call_log) + 1)
    /\ \A k \in Loads :
          /\ call_log[k].output.topics =
                IF call_log[k].fn = "parse_csv_file"
                THEN RecordsOfFile(call_log[k].input)
                ELSE RecordsOfTable(call_log[k].input.table)
          /\ call_log[k].output.total_partitions = SumTopicPartitions(call_log[k].output.topics)
          /\ call_log[k].output.total_storage_gb = SumTopicStorage(call_log[k].output.topics)

\* Two topics were loaded, then one topic from another file: the inventory
\* held is the one topic.
C22_Witness ==
    /\ shell_pc = "wait"
    /\ \E a, b \in Loads :
          /\ a < b
          /\ Len(call_log[a].output.topics) = 2
          /\ Len(call_log[b].output.topics) = 1
          /\ call_log[b].output.total_partitions < call_log[a].output.total_partitions
          /\ parsed_data = call_log[b].output

----------------------------------------------------------------------------
(* What the page shows at the end of a run.                                *)

\* A run has ended after pricing the selected size, the utilization
\* percentages shown.
RunPriced == shell_pc = "wait" /\ costs # NoCosts /\ utilization_info.shown

\* C23: whatever was edited, reset, selected and loaded before, at the end
\* of a run the prorated costs shown are calculate_costs on the selected
\* size and the inventory held, and the ROM breakdown shown is what
\* calculate_rom_costs returns on the session's configuration with the
\* partitions of the selected size, the configuration the exports get.
C23_DisplayCurrent ==
    RunPriced =>
        /\ session = MkSession(selected_size, parsed_data)
        /\ costs = calculate_costs(MkSession(selected_size, parsed_data))
        /\ config = preview_rom_config(rom_config, selected_size)
        /\ pc = "done"
        /\ result # NoResult

----------------------------------------------------------------------------
(* The spreadsheet renderers without the spreadsheet library.              *)

\* The renderers that build a workbook, and the text export of each.
CsvExportOf(fn) ==
    IF fn = "generate_cost_projection_excel" THEN "generate_cost_projection_csv"
    ELSE "generate_rom_export"

SpreadsheetCalls ==
    { k \in 1..Len(call_log) :
        call_log[k].fn \in ExcelRenderers \cup {"generate_cost_projection_excel"} }

\* C24: without openpyxl a spreadsheet renderer raises only the KeyError
\* that calculate_rom_costs raised on its configuration right before, the
\* error of the text export too; and whenever the text export was rendered
\* from the same input, the renderer returned if and only if the text
\* export returned, and what it returned is the UTF-8 bytes of that text.
C24_FallbackIsCsvBytes ==
    ~HAS_OPENPYXL =>
        \A b \in SpreadsheetCalls :
            /\ call_log[b].raised =>
                  /\ b > 1
                  /\ call_log[b - 1] =
                        LogEntry("calculate_rom_costs", call_log[b].input, TRUE, NoResult)
            /\ \A a \in 1..Len(call_log) :
                  ( /\ call_log[a].fn = CsvExportOf(call_log[b].fn)
                    /\ call_log[a].input = call_log[b].input )
                  => /\ call_log[b].raised = call_log[a].raised
                     /\ ~call_log[a].raised =>
                           call_log[b].output = encode(call_log[a].output)

\* Without openpyxl the same configuration was exported as text and through
\* a spreadsheet renderer, and both returned.
C24_Witness ==
    /\ ~HAS_OPENPYXL
    /\ \E a, b \in 1..Len(call_log) :
          /\ call_log[a].fn = "generate_rom_export"
          /\ call_log[b].fn \in ExcelRenderers
          /\ call_log[a].input = call_log[b].input
          /\ ~call_log[a].raised
          /\ ~call_log[b].raised
          /\ call_log[b].output.type = "bytes"

----------------------------------------------------------------------------
(* The columns of the text ledger.                                         *)

\* The texts generate_rom_export returned.
TextExports ==
    { k \in 1..Len(call_log) : call_log[k].fn = "generate_rom_export" /\ ~call_log[k].raised }

\* Where the rows of the two sections stand in the text, and the header of
\* each section.
LedgerLines == {5, 6, 7, 8, 9, 10, 11, 16, 17, 18, 19, 20, 21}

HeaderLines == {3, 14}

\* C25: in the text generate_rom_export returns, each header splits at the
\* commas into "Fiscal Year", the 12 years start_year .. start_year + 11 and
\* "Total"; every row of the ledger splits into as many fields as the
\* header, and the fields under the years after the seventh are empty.
C25_RowsMatchHeader ==
    \A k \in TextExports :
        LET text == call_log[k].output
            first == call_log[k].input.start_year
        IN  /\ \A h \in HeaderLines :
                  /\ Len(Fields(text[h])) = 14
                  /\ Fields(text[h])[1] = <<"Fiscal Year">>
                  /\ \A y \in 1..12 : Fields(text[h])[y + 1] = Str(first + y - 1)
                  /\ Fields(text[h])[14] = <<"Total">>
            /\ \A r \in LedgerLines :
                  /\ Len(Fields(text[r])) = 14
                  /\ \A y \in 8..12 : Fields(text[r])[y + 1] = <<>>
                  /\ Fields(text[r])[14] # <<>>

\* The header alone is as the claim has it.
C25_HeaderShape ==
    \A k \in TextExports :
        \A h \in HeaderLines :
            /\ Len(Fields(call_log[k].output[h])) = 14
            /\ Fields(call_log[k].output[h])[14] = <<"Total">>

\* The rows without values have one field less than the header in every
\* text exported.
C25_PlaceholderShort ==
    \A k \in TextExports :
        \A r \in {6, 7, 8, 9, 17, 18, 19, 20} :
            /\ Len(Fields(call_log[k].output[r])) = 13
            /\ Fields(call_log[k].output[r])[13] = <<"$-">>

----------------------------------------------------------------------------
(* The rows of parse_csv_file, one by one.                                 *)

\* The rows the loop has gone through, the header included.
RowsDone == IF rows = <<>> THEN <<>> ELSE SubSeq(rows, 1, row_idx - 1)

\* Between two rows the totals are the sums over the records kept, and the
\* records kept are those of the rows gone through, in their order.
TotalsMatchTopics ==
    reader_pc = "csv_loop" =>
        /\ total_partitions = SumTopicPartitions(topics)
        /\ total_storage_gb = SumTopicStorage(topics)
        /\ topics = RecordsOfFile(RowsDone)

\* Going through the row at row_idx adds its partitions, its storage and
\* its record, or leaves the two totals and the records as they are.
RowAllOrNothing ==
    (reader_pc = "csv_loop" /\ reader_pc' = "csv_loop" /\ row_idx' = row_idx + 1) =>
        \/ /\ KeptByCsv(rows[row_idx])
           /\ total_partitions' = total_partitions + CsvRowOutcome(rows[row_idx]).topic.partitions
           /\ total_storage_gb' =
                 Add(total_storage_gb, CsvRowOutcome(rows[row_idx]).topic.storage_gb)
           /\ topics' = Append(topics, CsvRowOutcome(rows[row_idx]).topic)
        \/ UNCHANGED <<total_partitions, total_storage_gb, topics>>

\* C26: parse_csv_file goes through each data row atomically, adding its
\* partitions, its storage and one record together or changing none of the
\* three, so that after every row total_partitions and total_storage_gb are
\* the sums over the records kept and the records are in the order of the
\* rows.
C26_RowsAtomic == []TotalsMatchTopics /\ [][RowAllOrNothing]_vars

\* A row was kept and the row after it raised on its storage field though
\* its partition field is an integer: the totals are those of the first
\* row.
C26_Witness ==
    /\ reader_pc = "csv_loop"
    /\ row_idx = 4
    /\ Len(topics) = 1
    /\ CsvRowOutcome(rows[3]).kind = "error"
    /\ IntAccepts(rows[3][3])
    /\ total_partitions = topics[1].partitions
    /\ total_partitions > 0

----------------------------------------------------------------------------
(* A table load that fails.                                                *)

\* The step in which parse_databricks_table raises.
TableLoadRaises ==
    /\ Len(call_log') = Len(call_log) + 1
    /\ call_log'[Len(call_log')].fn = "parse_databricks_table"
    /\ call_log'[Len(call_log')].raised

\* The step of the page after the call raised.
AfterTableLoadRaised ==
    /\ shell_pc = "table"
    /\ call_log # <<>>
    /\ call_log[Len(call_log)].raised
    /\ shell_pc' # shell_pc

\* The step in which a load that returned is logged.
LoadReturns ==
    /\ Len(call_log') = Len(call_log) + 1
    /\ call_log'[Len(call_log')].fn \in {"parse_csv_file", "parse_databricks_table"}
    /\ ~call_log'[Len(call_log')].raised

\* C27: when the table load of the page raises, the inventory held stays
\* what it was, the last one loaded or none, and the except clause shows the
\* error with its message and the run goes on; the inventory held changes
\* only in the step in which a load returns, to what that load returned.
C27_FailedLoadKeepsInventory ==
    [][ /\ TableLoadRaises => parsed_data' = parsed_data
        /\ AfterTableLoadRaised =>
              /\ parsed_data' = parsed_data
              /\ notice' = Notice("error", "table", call_log[Len(call_log)].output.message[2])
              /\ shell_pc' = "default"
        /\ parsed_data' # parsed_data =>
              /\ LoadReturns
              /\ parsed_data' = call_log'[Len(call_log')].output ]_vars

\* An inventory was loaded in an earlier run; in this run the table load
\* raised, the error is shown and the inventory is still held.
C27_Witness ==
    /\ shell_pc = "default"
    /\ Len(call_log) = 2
    /\ ~call_log[1].raised
    /\ call_log[2].fn = "parse_databricks_table"
    /\ call_log[2].raised
    /\ notice.kind = "error"
    /\ parsed_data = call_log[1].output
    /\ parsed_data # NoInventory

----------------------------------------------------------------------------
(* The guard of the page: nothing is priced without an inventory.          *)

\* The positions of a run after the guard of lines 190-197.
PastGuard == {"settings", "size", "utilization", "preview", "rom"}

\* Past the guard an inventory is held, and costs are on the page only with
\* an inventory held.
PricedOnlyWithInventory ==
    /\ shell_pc \in PastGuard => parsed_data # NoInventory
    /\ (costs # NoCosts \/ utilization_info.shown \/ result # NoResult) =>
          parsed_data # NoInventory

\* The step in which calculate_costs or calculate_rom_costs is called.
PricingStep ==
    \/ costs' # costs /\ costs' # NoCosts
    \/ /\ Len(call_log') = Len(call_log) + 1
       /\ call_log'[Len(call_log')].fn \in {"calculate_costs", "calculate_rom_costs"}
    \/ pc' # pc

\* C28: while no inventory is held, whether the table load failed, nothing
\* was uploaded or the default file is missing, the run stops at the guard
\* before calculate_costs and calculate_rom_costs are called and no cost is
\* on the page; an inventory once held stays held in every later step.
C28_NoCostWithoutInventory ==
    /\ []PricedOnlyWithInventory
    /\ [][ /\ PricingStep => (parsed_data # NoInventory /\ shell_pc \in PastGuard)
           /\ (shell_pc = "guard" /\ parsed_data = NoInventory) => shell_pc' = "wait"
           /\ parsed_data # NoInventory => parsed_data' # NoInventory ]_vars

\* The table load raised, the default file is missing: the run has stopped
\* at the guard with nothing priced.
C28_Witness ==
    /\ shell_pc = "wait"
    /\ notice = Notice("error", "guard", "please upload")
    /\ parsed_data = NoInventory
    /\ Len(call_log) = 1
    /\ call_log[1].raised
    /\ costs = NoCosts

----------------------------------------------------------------------------
(* The configuration the page passes to calculate_rom_costs.               *)

\* The calls of calculate_rom_costs so far.
RomCalls == { k \in 1..Len(call_log) : call_log[k].fn = "calculate_rom_costs" }

\* C29: whatever was edited and reset before, the configuration the page
\* passes to calculate_rom_costs has the keys the function reads, the annual
\* platform and per-feed rates among them, and no call of the page raises
\* KeyError.
C29_ShellConfigComplete ==
    /\ shell_pc = "rom" => config.keys = "annual"
    /\ \A k \in RomCalls : ~call_log[k].raised

\* Every call of the page raises: the configuration passed has the monthly
\* keys only.
C29_EveryCallRaises ==
    \A k \in RomCalls : call_log[k].raised /\ call_log[k].input.keys = "monthly"

\* The page has called calculate_rom_costs on the default configuration
\* with the partitions of the selected size.
C29_Reached ==
    \E k \in RomCalls : call_log[k].input = preview_rom_config(DEFAULT_ROM_CONFIG, selected_size)

----------------------------------------------------------------------------
(* The rows of the ledgers against their totals.                           *)

\* The values of a row added from left to right.
RECURSIVE SumCells(_)
SumCells(cells) ==
    IF cells = <<>> THEN Zero
    ELSE Add(SumCells(SubSeq(cells, 1, Len(cells) - 1)), cells[Len(cells)])

\* The breakdowns calculate_rom_costs returned.
RomReturns == { k \in RomCalls : ~call_log[k].raised }

\* The rows of every ledger rendered from a breakdown: the two sections of
\* the text and the sheets of the complete and the cloud-only workbook.
LedgerRows(results) ==
    TextLedger(results).initial \o TextLedger(results).variance
    \o SheetLedger("generate_rom_export_excel", results)
    \o SheetLedger("generate_rom_export_excel_cloud_only", results)

\* The year a cell of a row stands under.
YearOfCell(cfg, row, k) == cfg.start_year + row.first + k - 2

\* The cells of a row after the first year are the 6 escalated years, each
\* under its own year.
EscalatedInYearOrder(cfg, results, row) ==
    \A k \in 1..Len(row.cells) :
        YearOfCell(cfg, row, k) > cfg.start_year =>
            /\ YearOfCell(cfg, row, k) - cfg.start_year \in 1..6
            /\ LET ov == results.operating_variance[YearOfCell(cfg, row, k) - cfg.start_year]
               IN  /\ ov.year = YearOfCell(cfg, row, k)
                   /\ row.cells[k] = ov.cloud_infrastructure

\* The totals the rows show, by label.
RowTotalsFromBreakdown(results, row) ==
    /\ row.label = "Data Engineering" /\ row.first = 1 =>
          row.total = results.breakdown.one_time_development
    /\ row.label = "GCP/GKE/Confluent" =>
          row.total = results.breakdown.cloud_infrastructure_7year
    /\ row.label = "TOTAL" /\ row.first = 1 =>
          /\ row.total = results.breakdown.total_project_cost
          /\ row.cells[1] = Add(results.breakdown.one_time_development,
                                results.breakdown.first_year_cloud_cost)
    /\ row.first = 2 => row.total = results.breakdown.operating_variance_6year

\* C30 as stated: in every ledger each row's total is exactly the sum of
\* the row's year cells, the TOTAL row of the initial investment included.
C30_RowTotalIsSum ==
    \A c \in RomReturns :
        \A r \in 1..Len(LedgerRows(call_log[c].output)) :
            LET row == LedgerRows(call_log[c].output)[r]
            IN  /\ row.total = SumCells(row.cells)
                /\ RowTotalsFromBreakdown(call_log[c].output, row)
                /\ EscalatedInYearOrder(call_log[c].input, call_log[c].output, row)

\* C30 amended: every row shows the total of the breakdown and the 6
\* escalated years in year order under start_year + 1 .. start_year + 6;
\* the total is exactly the sum of the cells in the Data Engineering,
\* GCP/GKE/Confluent, placeholder and operating-variance rows, and in the
\* TOTAL row of the initial investment it is the sum of the cells up to
\* floating-point rounding (within 8 units in its last place).
C30_RowTotalUpToRounding ==
    \A c \in RomReturns :
        \A r \in 1..Len(LedgerRows(call_log[c].output)) :
            LET row == LedgerRows(call_log[c].output)[r]
            IN  /\ IF row.label = "TOTAL" /\ row.first = 1
                   THEN WithinUlps(row.total, SumCells(row.cells), 8, row.total)
                   ELSE row.total = SumCells(row.cells)
                /\ RowTotalsFromBreakdown(call_log[c].output, row)
                /\ EscalatedInYearOrder(call_log[c].input, call_log[c].output, row)

\* A breakdown whose TOTAL row does not add up exactly, though its
\* GCP/GKE/Confluent row does.
C30_Witness ==
    \E c \in RomReturns :
        LET ini == TextLedger(call_log[c].output).initial
        IN  /\ ini[7].total # SumCells(ini[7].cells)
            /\ ini[6].total = SumCells(ini[6].cells)
            /\ NonZero(ini[6].total)

====
